---- MODULE Spec2Model ----
(***************************************************************************)
(* Turn-taking coordination of Realtime_HALfred (src/main.py).             *)
(*                                                                         *)
(* Three threads touch ListenState and MicStreamer:                        *)
(*   - the asyncio scheduler thread, hosting the tasks mic_send_loop,      *)
(*     event_loop and user_input_loop (one runs at a time; a task gives    *)
(*     the thread up only at an await);                                    *)
(*   - the pynput keyboard thread, running on_ptt_press / on_ptt_release;  *)
(*   - the sounddevice capture thread, running MicStreamer._callback.      *)
(* Statements of different threads interleave freely.  A step is one       *)
(* access to state that another thread accesses too, together with the     *)
(* statements around it that touch only state private to its thread.       *)
(*                                                                         *)
(* Time is counted in ticks of 0.05 s.                                     *)
(***************************************************************************)
EXTENDS Integers, Sequences, FiniteSets, TLC

\* ---------------------------------------------------------------- bounds
MaxPresses == 2      \* push-to-talk key presses in a run
MaxChunks  == 2      \* capture blocks delivered to the callback in a run
MaxEvents  == 2      \* server events handled in a run
MaxCmds    == 1      \* console commands handled in a run
SendTicks  == 14     \* ticks the send of a silence frame takes
BlockBytes == 4800   \* bytes in a capture block

\* ------------------------------------------------------ program constants
MIN_AUDIO_BYTES     == 4800     \* line 833
SILENCE_CHUNK_SIZE  == 4800     \* line 857
MAX_WAIT_TICKS      == 30       \* line 858: 1.5 s
WAIT_TIMEOUT_TICKS  == 2        \* line 873: 0.1 s
SLEEP_TICKS         == 1        \* line 876: 0.05 s
SILENCE_PAD_BYTES   == 24000    \* lines 894-895: 12000 samples of 2 bytes

\* blocksize=0 (line 617): the device picks the block length.
ChunkLens == {BlockBytes}

VARIABLES
    turn_state,      \* ListenState.turn_state
    bytes,           \* ListenState.bytes_appended_since_commit
    ptt_mode,        \* ListenState.ptt_mode
    enabled,         \* ListenState.enabled
    ptt_active,      \* ListenState.ptt_active
    speech_ended,    \* ListenState.speech_ended_event is set
    running,         \* MicStreamer._running
    streamActive,    \* MicStreamer._stream is started
    queue,           \* MicStreamer.queue, with the puts scheduled on the loop
    listenerOn,      \* PTTState.keyboard_listener is running
    is_pressed,      \* KeyboardListener.is_pressed
    pc,              \* position of each task / thread
    ret,             \* user_input_loop: where its start()/stop() call returns to
    sched,           \* the task that holds the scheduler thread, or "none"
    item,            \* mic_send_loop: the dequeued chunk
    tmp,             \* mic_send_loop: the value read by a pending +=
    elapsed,         \* mic_send_loop: loop time since start_time
    cb,              \* _callback: the latest invocation
    cnt,             \* how many presses, blocks, events, commands, starts so far
    sent,            \* the session.send_audio call made by the latest step
    out,             \* what a callback, key release or server event that was
                     \* just handled did
    h,               \* observer: the handling of the latest sentinel
    obs,             \* observer: the turns of stop() and of the latest dequeue,
                     \* the bytes queued since the latest press
    tts,             \* ElevenLabsTTS and AudioPlayer (specification TtsSpec)
    txt,             \* the text side of ElevenLabsTTS.add_text (TextSpec)
    kl,              \* KeyboardListener on its own (KeySpec)
    ka,              \* keepalive_loop (KeepSpec)
    hm,              \* connection_health_monitor (HealthSpec)
    mn,              \* main() and the devices it acquires (MainSpec)
    pl,              \* AudioPlayer's buffer as bytes (PlaySpec)
    risk,            \* pty_command_safety on command lines (RiskSpec)
    fsp,             \* the filesystem proxy and its approvals (ProxySpec)
    sup              \* SupervisorAgent.process (SupSpec)

vars == <<turn_state, bytes, ptt_mode, enabled, ptt_active, speech_ended,
          running, streamActive, queue, listenerOn, is_pressed, pc, ret,
          sched, item, tmp, elapsed, cb, cnt, sent, out, h, obs, tts, txt, kl,
          ka, hm, mn, pl, risk, fsp, sup>>

\* The turn-taking state, and the state of the components that are modelled
\* in specifications of their own.
coreVars == <<turn_state, bytes, ptt_mode, enabled, ptt_active, speech_ended,
              running, streamActive, queue, listenerOn, is_pressed, pc, ret,
              sched, item, tmp, elapsed, cb, cnt, sent, out, h, obs>>
moreVars == <<ka, hm, mn, pl, risk, fsp, sup>>
sideVars == <<tts, txt, kl, moreVars>>

lsVars  == <<turn_state, bytes, ptt_mode, enabled, ptt_active, speech_ended>>
micVars == <<running, streamActive, queue>>
kbVars  == <<listenerOn, is_pressed>>
locVars == <<item, tmp, elapsed>>

Callers == {"kbd", "evt", "inp"}

Min(a, b) == IF a < b THEN a ELSE b

\* Queue items.  seq: the capture order of a chunk; turn: the start() whose
\* capture produced the chunk, or whose capture the sentinel's stop() ended;
\* gate: what the producing callback saw of its gate.
NoItem == [k |-> "none", len |-> 0, seq |-> 0, turn |-> 0, gate |-> TRUE]
Sentinel(t) == [k |-> "sentinel", len |-> 0, seq |-> 0, turn |-> t, gate |-> TRUE]
Chunk(n, s, t, g) == [k |-> "chunk", len |-> n, seq |-> s, turn |-> t, gate |-> g]

\* What a callback in progress read: the turn (the count of start() calls) and
\* the running flag.
NoCb == [turn |-> 0, run |-> TRUE]

NoSend == [data |-> "none", len |-> 0, commit |-> FALSE]

\* What the handling of one end-of-turn sentinel did:
\*   tsStart, lowStart  turn_state and bytes < MIN_AUDIO_BYTES when it began
\*   pttStart           ptt_mode when it began
\*   minOk, mode        what the checks at lines 843 and 850 read
\*   commitSends        send_audio(commit=True) calls
\*   toCommitted        changes of turn_state to "committed" meanwhile
\*   sil, silAfter      a silence frame was sent / sent after such a change
\*   silBad             a silence frame was started while not awaiting_speech_end
\*   speechEvt          speech_stopped / audio_buffer_committed arrived meanwhile
\*   sawAwait           turn_state was awaiting_speech_end meanwhile
\*   timedOut           the bounded wait elapsed (line 885)
\*   tsEnd, bytesEnd    turn_state and bytes when it ended
H0 == [outcome |-> "none", tsStart |-> "idle", lowStart |-> FALSE,
       pttStart |-> FALSE,
       minOk |-> FALSE, mode |-> "unread", pad |-> 0,
       commitSends |-> 0, toCommitted |-> 0, sil |-> FALSE, silAfter |-> FALSE,
       silBad |-> FALSE, speechEvt |-> FALSE, sawAwait |-> FALSE,
       timedOut |-> FALSE, tsEnd |-> "idle", bytesEnd |-> 0]

\* The sentinel whose handling is in progress.
Handling == h.outcome = "handling"

\* The session is live until /quit has closed it and main() cancels the tasks.
Live == pc.inp # "done"

\* Task p resumes from an await: the scheduler thread is free.
MayResume(p) == Live /\ sched = "none"
\* Task p goes on without an await in between.
InTask(p) == Live /\ sched = p

Goto(p, l) == pc' = [pc EXCEPT ![p] = l]

NoOut == [cb |-> "none", rel |-> "none", ev |-> "none"]

\* The step sends no audio and ends neither a callback nor a key release.
Quiet == sent' = NoSend /\ out' = NoOut

\* The record of a handling is kept while the handling lasts and for the one
\* state in which it has ended.
Settled(x) == IF x.outcome \in {"none", "handling"} THEN x ELSE H0
HKeep == h' = Settled(h)

\* A write of turn_state, seen by the observer of the handling in progress.
ObsWrite(new) ==
    h' = IF Handling
         THEN [h EXCEPT
                 !.toCommitted = IF new = "committed" /\ turn_state # "committed"
                                 THEN Min(@ + 1, 2) ELSE @,
                 !.sawAwait = @ \/ new = "awaiting_speech_end"]
         ELSE Settled(h)

\* ------------------------------------------------------------------ Init
\* The components modelled in specifications of their own are left out of a
\* specification by holding their variables at this value.
MoreUnused ==
    /\ ka = "unused" /\ hm = "unused" /\ mn = "unused"
    /\ pl = "unused" /\ risk = "unused" /\ fsp = "unused" /\ sup = "unused"
SideUnused == tts = "unused" /\ txt = "unused" /\ kl = "unused" /\ MoreUnused

\* No input of the run's budget is spent yet.
Spent0 == [press |-> 0, chunk |-> 0, event |-> 0, cmd |-> 0]

\* main(), lines 1768-1811: the turn-taking state after construction; ptt is
\* PTT_ENABLED, which picks the mode the session starts in.
CoreInit(ptt, spent) ==
    /\ turn_state = "idle"
    /\ bytes = 0
    /\ ptt_mode = ptt
    /\ enabled = ~ptt
    /\ ptt_active = FALSE
    /\ speech_ended = FALSE
    /\ running = ~ptt
    /\ streamActive = ~ptt
    /\ queue = <<>>
    /\ listenerOn = ptt
    /\ is_pressed = FALSE
    /\ pc = [mic |-> "get", evt |-> "recv", inp |-> "read",
             kbd |-> "idle", aud |-> "idle"]
    /\ ret = "read"
    /\ sched = "none"
    /\ item = NoItem
    /\ tmp = 0
    /\ elapsed = 0
    /\ cb = NoCb
    /\ cnt = [press |-> spent.press, chunk |-> spent.chunk,
              event |-> spent.event, cmd |-> spent.cmd,
              start |-> IF ptt THEN 0 ELSE 1]
    /\ sent = NoSend
    /\ out = NoOut
    /\ h = H0
    /\ obs = [stopTurn |-> 0, lastTurn |-> 0, cap |-> 0]

Init == (\E ptt \in BOOLEAN : CoreInit(ptt, Spent0)) /\ SideUnused

\* ------------------------------------------------------------ MicStreamer
\* A call of start() or stop() by caller p: the keyboard thread, or a task that
\* holds the scheduler thread.
InCall(p) == Live /\ (p = "kbd" \/ sched = p)

\* Where the call returns to: on_ptt_press / on_ptt_release end (lines 947,
\* 959), event_loop takes the next event (lines 1397, 1411), user_input_loop
\* goes on after its call.
RetOf(p) == CASE p = "kbd" -> "idle" [] p = "evt" -> "recv" [] OTHER -> ret

\* The labels at which a task waits in an await.
YieldLabels == {"recv", "read", "m_int", "q_close"}

\* Return to the caller; a task that returns to an await gives up the thread.
Return(p) ==
    /\ pc' = [pc EXCEPT ![p] = RetOf(p)]
    /\ sched' = IF p # "kbd" /\ RetOf(p) \in YieldLabels THEN "none" ELSE sched
    /\ ret' = IF p = "inp" THEN "read" ELSE ret

\* The commit argument of caller p's stop(): lines 959 (commit=True), and
\* 1009, 1031, 1051, 1397 (commit=False).
StopCommit(p) == p = "kbd"

\* start(), line 627: if self._running: return
StartChk(p) ==
    /\ InCall(p) /\ pc[p] = "start_chk"
    /\ IF running THEN Return(p) ELSE Goto(p, "start_set") /\ UNCHANGED <<sched, ret>>
    /\ Quiet
    /\ HKeep
    /\ UNCHANGED <<lsVars, micVars, kbVars, locVars, cb, cnt, obs>>
    /\ UNCHANGED sideVars

\* start(), line 629: self._running = True
StartSet(p) ==
    /\ InCall(p) /\ pc[p] = "start_set"
    /\ running' = TRUE
    /\ cnt' = [cnt EXCEPT !.start = @ + 1]
    /\ Goto(p, "start_stream")
    /\ Quiet
    /\ HKeep
    /\ UNCHANGED <<lsVars, streamActive, queue, kbVars, locVars, cb, ret,
                   sched, obs>>
    /\ UNCHANGED sideVars

\* start(), line 630: self._stream.start()
StartStream(p) ==
    /\ InCall(p) /\ pc[p] = "start_stream"
    /\ streamActive' = TRUE
    /\ Return(p)
    /\ Quiet
    /\ HKeep
    /\ UNCHANGED <<lsVars, running, queue, kbVars, locVars, cb, cnt, obs>>
    /\ UNCHANGED sideVars

\* stop(), line 634: if not self._running: return
StopChk(p) ==
    /\ InCall(p) /\ pc[p] = "stop_chk"
    /\ IF ~running THEN Return(p) ELSE Goto(p, "stop_set") /\ UNCHANGED <<sched, ret>>
    /\ sent' = NoSend
    /\ out' = IF p = "kbd" /\ ~running THEN [NoOut EXCEPT !.rel = "norun"] ELSE NoOut
    /\ HKeep
    /\ UNCHANGED <<lsVars, micVars, kbVars, locVars, cb, cnt, obs>>
    /\ UNCHANGED sideVars

\* stop(), line 636: self._running = False
StopSet(p) ==
    /\ InCall(p) /\ pc[p] = "stop_set"
    /\ running' = FALSE
    /\ obs' = IF StopCommit(p) THEN [obs EXCEPT !.stopTurn = cnt.start] ELSE obs
    /\ Goto(p, "stop_stream")
    /\ Quiet
    /\ HKeep
    /\ UNCHANGED <<lsVars, streamActive, queue, kbVars, locVars, cb, ret,
                   sched, cnt>>
    /\ UNCHANGED sideVars

\* A stop() of the stream that does not wait for the callback in progress.
NoJoin == TRUE

\* line 638: the stream's stop() returns once no callback is running any more.
StreamQuiet == pc.aud = "idle"

\* stop(), line 638: self._stream.stop()
StopStream(p) ==
    /\ InCall(p) /\ pc[p] = "stop_stream"
    /\ StreamQuiet
    /\ streamActive' = FALSE
    /\ IF StopCommit(p) THEN Goto(p, "stop_put") /\ UNCHANGED <<sched, ret>>
                        ELSE Return(p)
    /\ Quiet
    /\ HKeep
    /\ UNCHANGED <<lsVars, running, queue, kbVars, locVars, cb, cnt, obs>>
    /\ UNCHANGED sideVars

\* A stop() that never pushes the end-of-turn marker.
NeverPuts(commit) == FALSE

\* lines 641-642: whether stop() pushes the end-of-turn marker.
PutsSentinel(commit) == commit

\* stop(), lines 641-642: if commit:
\* self.loop.call_soon_threadsafe(self.queue.put_nowait, None)
StopPut(p) ==
    /\ InCall(p) /\ pc[p] = "stop_put"
    /\ queue' = IF PutsSentinel(StopCommit(p))
                THEN Append(queue, Sentinel(obs.stopTurn)) ELSE queue
    /\ obs' = [obs EXCEPT !.stopTurn = 0]
    /\ sent' = NoSend
    /\ out' = [NoOut EXCEPT !.rel = IF PutsSentinel(StopCommit(p))
                                    THEN "sent" ELSE "nosentinel"]
    /\ Return(p)
    /\ HKeep
    /\ UNCHANGED <<lsVars, running, streamActive, kbVars, locVars, cb, cnt>>
    /\ UNCHANGED sideVars

\* The gate of line 655 left out.
GateOpen(r) == TRUE

\* _callback, line 655: the gate on the running flag.
GateRunning(r) == r
\* _callback, line 658: the gate on the mute predicate's answer.
GateMuted(m) == m

\* _callback, lines 652-656: the capture thread delivers a block; the callback
\* reads _running.
CbInvoke ==
    /\ Live /\ pc.aud = "idle" /\ streamActive
    /\ cnt.chunk < MaxChunks
    /\ cnt' = [cnt EXCEPT !.chunk = @ + 1]
    /\ IF GateRunning(running)
       THEN /\ cb' = [turn |-> cnt.start, run |-> running]
            /\ Goto("aud", "gate")
            /\ out' = NoOut
       ELSE /\ out' = [NoOut EXCEPT !.cb = "notrunning"]
            /\ UNCHANGED <<cb, pc>>
    /\ sent' = NoSend
    /\ HKeep
    /\ UNCHANGED <<lsVars, micVars, kbVars, locVars, ret, sched, obs>>
    /\ UNCHANGED sideVars

\* _callback, lines 658-662: the mute predicate, when one is configured, answers
\* m; call_soon_threadsafe(self.queue.put_nowait, chunk)
CbPut ==
    /\ Live /\ pc.aud = "gate"
    /\ \E m \in BOOLEAN, n \in ChunkLens :
        IF GateMuted(m)
        THEN /\ out' = [NoOut EXCEPT !.cb = "muted"]
             /\ UNCHANGED <<queue, obs>>
        ELSE /\ out' = [NoOut EXCEPT !.cb = "put"]
             /\ queue' = Append(queue, Chunk(n, cnt.chunk, cb.turn, cb.run /\ ~m))
             /\ obs' = [obs EXCEPT !.cap = @ + n]
    /\ cb' = NoCb
    /\ sent' = NoSend
    /\ Goto("aud", "idle")
    /\ HKeep
    /\ UNCHANGED <<lsVars, running, streamActive, kbVars, locVars, ret, sched,
                   cnt>>
    /\ UNCHANGED sideVars

\* ---------------------------------------------------------- mic_send_loop
\* A session.send_audio(data, commit=c) call.
Send(data, n, c) ==
    sent' = [data |-> data, len |-> n, commit |-> c] /\ out' = NoOut

\* The handling of the sentinel ends with outcome o: mic_send_loop goes back to
\* await mic.queue.get().  To be used after turn_state' and bytes' are set.
Finish(o) ==
    /\ h' = [h EXCEPT !.outcome = o, !.tsEnd = turn_state', !.bytesEnd = bytes']
    /\ Goto("mic", "get")
    /\ sched' = "none"
    /\ item' = NoItem
    /\ elapsed' = 0

Advanced(d) == Min(elapsed + d, MAX_WAIT_TICKS + 1)

\* lines 836, 903: chunk = await mic.queue.get() returns an audio chunk; the
\* read of: listen_state.bytes_appended_since_commit += len(chunk)
MsGetChunk ==
    /\ MayResume("mic") /\ pc.mic = "get"
    /\ queue # <<>> /\ Head(queue).k = "chunk"
    /\ item' = Head(queue)
    /\ queue' = Tail(queue)
    /\ tmp' = bytes
    /\ sched' = "mic"
    /\ Goto("mic", "inc_write")
    /\ Quiet
    /\ HKeep
    /\ UNCHANGED <<lsVars, running, streamActive, kbVars, elapsed, cb, ret,
                   cnt, obs>>
    /\ UNCHANGED sideVars

Replaced(old, n) == n

\* line 903: the value that += len(chunk) stores, old being the value it read.
Incremented(old, n) == old + n

\* lines 903-904, the write of the +=, then: await session.send_audio(chunk)
MsIncWrite ==
    /\ InTask("mic") /\ pc.mic = "inc_write"
    /\ bytes' = Incremented(tmp, item.len)
    /\ Send("chunk", item.len, FALSE)
    /\ tmp' = 0
    /\ item' = NoItem
    /\ Goto("mic", "get")
    /\ sched' = "none"
    /\ HKeep
    /\ UNCHANGED <<turn_state, ptt_mode, enabled, ptt_active, speech_ended,
                   micVars, kbVars, elapsed, cb, ret, cnt, obs>>
    /\ UNCHANGED sideVars

\* The guard of line 839 left out.
NeverCommitted(ts) == FALSE

\* line 839: the guard against double commits.
AlreadyCommitted(ts) == ts = "committed"

\* lines 836-841: chunk = await mic.queue.get() returns the sentinel None;
\* if listen_state.turn_state == "committed": continue
MsGetSentinel ==
    /\ MayResume("mic") /\ pc.mic = "get"
    /\ queue # <<>> /\ Head(queue).k = "sentinel"
    /\ queue' = Tail(queue)
    /\ obs' = [obs EXCEPT !.lastTurn = Head(queue).turn]
    /\ IF AlreadyCommitted(turn_state)
       THEN /\ h' = [H0 EXCEPT !.outcome = "ignored", !.tsStart = turn_state,
                               !.lowStart = bytes < MIN_AUDIO_BYTES,
                               !.pttStart = ptt_mode,
                               !.tsEnd = turn_state, !.bytesEnd = bytes]
            /\ UNCHANGED <<pc, sched, item>>
       ELSE /\ h' = [H0 EXCEPT !.outcome = "handling", !.tsStart = turn_state,
                               !.lowStart = bytes < MIN_AUDIO_BYTES,
                               !.pttStart = ptt_mode]
            /\ item' = Head(queue)
            /\ Goto("mic", "chk_min")
            /\ sched' = "mic"
    /\ Quiet
    /\ UNCHANGED <<lsVars, running, streamActive, kbVars, tmp, elapsed, cb, ret, cnt>>
    /\ UNCHANGED sideVars

\* The guard of line 843 left out.
NeverBelowMin(b) == FALSE

\* line 843: the guard against commits of too little audio.
BelowMin(b) == b < MIN_AUDIO_BYTES

\* lines 843, 850: if listen_state.bytes_appended_since_commit < MIN_AUDIO_BYTES;
\* if listen_state.ptt_mode
MsChkMin ==
    /\ InTask("mic") /\ pc.mic = "chk_min"
    /\ IF BelowMin(bytes)
       THEN Goto("mic", "drop_ts") /\ UNCHANGED h
       ELSE /\ Goto("mic", IF ptt_mode THEN "set_await" ELSE "cont_ts")
            /\ h' = [h EXCEPT !.minOk = bytes >= MIN_AUDIO_BYTES,
                              !.mode = IF ptt_mode THEN "ptt" ELSE "cont"]
    /\ Quiet
    /\ UNCHANGED <<lsVars, micVars, kbVars, locVars, cb, ret, sched, cnt, obs>>
    /\ UNCHANGED sideVars

\* line 845: listen_state.turn_state = "idle"
MsDropTs ==
    /\ InTask("mic") /\ pc.mic = "drop_ts"
    /\ turn_state' = "idle"
    /\ ObsWrite("idle")
    /\ Goto("mic", "drop_bytes")
    /\ Quiet
    /\ UNCHANGED <<bytes, ptt_mode, enabled, ptt_active, speech_ended, micVars,
                   kbVars, locVars, cb, ret, sched, cnt, obs>>
    /\ UNCHANGED sideVars

\* lines 846-847: listen_state.bytes_appended_since_commit = 0; continue
MsDropBytes ==
    /\ InTask("mic") /\ pc.mic = "drop_bytes"
    /\ bytes' = 0
    /\ UNCHANGED turn_state
    /\ Finish("dropped")
    /\ Quiet
    /\ UNCHANGED <<ptt_mode, enabled, ptt_active, speech_ended, micVars,
                   kbVars, tmp, cb, ret, cnt, obs>>
    /\ UNCHANGED sideVars

\* lines 852-863: listen_state.turn_state = "awaiting_speech_end";
\* start_time = loop.time(); speech_ended_event.clear()
MsSetAwait ==
    /\ InTask("mic") /\ pc.mic = "set_await"
    /\ turn_state' = "awaiting_speech_end"
    /\ ObsWrite("awaiting_speech_end")
    /\ elapsed' = 0
    /\ speech_ended' = FALSE
    /\ Goto("mic", "while")
    /\ Quiet
    /\ UNCHANGED <<bytes, ptt_mode, enabled, ptt_active, micVars, kbVars, item, tmp,
                   cb, ret, sched, cnt, obs>>
    /\ UNCHANGED sideVars

\* line 865: while listen_state.turn_state == "awaiting_speech_end"
MsWhile ==
    /\ InTask("mic") /\ pc.mic = "while"
    /\ UNCHANGED <<lsVars, micVars, kbVars, tmp, cb, ret, cnt, obs>>
    /\ IF turn_state = "awaiting_speech_end"
       THEN Goto("mic", "sil_send") /\ UNCHANGED <<h, sched, item, elapsed>>
       ELSE Finish("exited")
    /\ Quiet
    /\ UNCHANGED sideVars

\* The silence frame of line 867 sent with commit=True.
SilenceCommits == TRUE

\* line 867: the commit argument of a silence frame.
SilenceCommit == FALSE

\* line 867: await session.send_audio(b"\x00" * silence_chunk_size, commit=False)
MsSilSend ==
    /\ InTask("mic") /\ pc.mic = "sil_send"
    /\ Send("silence", SILENCE_CHUNK_SIZE, SilenceCommit)
    /\ h' = [h EXCEPT !.sil = TRUE,
                      !.silAfter = @ \/ h.toCommitted > 0,
                      !.silBad = @ \/ turn_state # "awaiting_speech_end",
                      !.commitSends = IF SilenceCommit THEN Min(@ + 1, 2) ELSE @]
    /\ elapsed' = Advanced(SendTicks)
    /\ Goto("mic", "sil_sent")
    /\ sched' = "none"
    /\ UNCHANGED <<lsVars, micVars, kbVars, item, tmp, cb, ret, cnt, obs>>
    /\ UNCHANGED sideVars

\* line 868, the read of: listen_state.bytes_appended_since_commit += 4800
MsSilIncRead ==
    /\ MayResume("mic") /\ pc.mic = "sil_sent"
    /\ tmp' = bytes
    /\ sched' = "mic"
    /\ Goto("mic", "sil_inc")
    /\ Quiet
    /\ HKeep
    /\ UNCHANGED <<lsVars, micVars, kbVars, item, elapsed, cb, ret, cnt, obs>>
    /\ UNCHANGED sideVars

\* lines 868-873, the write of the +=, then:
\* await asyncio.wait_for(speech_ended_event.wait(), timeout=0.1)
MsSilInc ==
    /\ InTask("mic") /\ pc.mic = "sil_inc"
    /\ bytes' = tmp + SILENCE_CHUNK_SIZE
    /\ tmp' = 0
    /\ Goto("mic", "waiting")
    /\ sched' = "none"
    /\ Quiet
    /\ HKeep
    /\ UNCHANGED <<turn_state, ptt_mode, enabled, ptt_active, speech_ended,
                   micVars, kbVars, item, elapsed, cb, ret, cnt, obs>>
    /\ UNCHANGED sideVars

\* line 885: the bounded wait is over.
WaitElapsed(e) == e > MAX_WAIT_TICKS

\* lines 884-890: if elapsed > max_wait_time, go on to mark the turn committed;
\* otherwise back to the loop's test.
AfterWait(e) ==
    /\ elapsed' = e
    /\ sched' = "mic"
    /\ IF WaitElapsed(e)
       THEN Goto("mic", "to_ts") /\ h' = [h EXCEPT !.timedOut = e > MAX_WAIT_TICKS]
       ELSE Goto("mic", "while") /\ UNCHANGED h
    /\ UNCHANGED item

\* lines 873-879: the event is set; await asyncio.sleep(0.05);
\* if listen_state.turn_state == "committed": break
MsWaitEvt ==
    /\ MayResume("mic") /\ pc.mic = "waiting"
    /\ speech_ended
    /\ UNCHANGED <<lsVars, micVars, kbVars, tmp, cb, ret, cnt, obs>>
    /\ IF turn_state = "committed"
       THEN Finish("server")
       ELSE AfterWait(Advanced(SLEEP_TICKS))
    /\ Quiet
    /\ UNCHANGED sideVars

\* The wait of line 873 without its timeout: only the event ends it.
MsWaitForever ==
    /\ FALSE
    /\ UNCHANGED vars

\* lines 880-885: asyncio.TimeoutError after 0.1 s
MsWaitTimeout ==
    /\ MayResume("mic") /\ pc.mic = "waiting"
    /\ ~speech_ended
    /\ AfterWait(Advanced(WAIT_TIMEOUT_TICKS))
    /\ Quiet
    /\ UNCHANGED <<lsVars, micVars, kbVars, tmp, cb, ret, cnt, obs>>
    /\ UNCHANGED sideVars

\* line 888: listen_state.turn_state = "committed"
MsToTs ==
    /\ InTask("mic") /\ pc.mic = "to_ts"
    /\ turn_state' = "committed"
    /\ ObsWrite("committed")
    /\ Goto("mic", "to_bytes")
    /\ Quiet
    /\ UNCHANGED <<bytes, ptt_mode, enabled, ptt_active, speech_ended, micVars,
                   kbVars, locVars, cb, ret, sched, cnt, obs>>
    /\ UNCHANGED sideVars

\* lines 889-890: listen_state.bytes_appended_since_commit = 0; break
MsToBytes ==
    /\ InTask("mic") /\ pc.mic = "to_bytes"
    /\ bytes' = 0
    /\ UNCHANGED turn_state
    /\ Finish("timeout")
    /\ Quiet
    /\ UNCHANGED <<ptt_mode, enabled, ptt_active, speech_ended, micVars,
                   kbVars, tmp, cb, ret, cnt, obs>>
    /\ UNCHANGED sideVars

\* lines 894-895: the silence pad of the continuous commit, in bytes.
PadBytes == SILENCE_PAD_BYTES

\* lines 893-897: listen_state.turn_state = "committed";
\* await session.send_audio(silence_bytes, commit=True)
MsContSend ==
    /\ InTask("mic") /\ pc.mic = "cont_ts"
    /\ turn_state' = "committed"
    /\ Send("silence", PadBytes, TRUE)
    /\ h' = [h EXCEPT !.commitSends = Min(@ + 1, 2), !.pad = PadBytes,
                      !.toCommitted = IF turn_state # "committed"
                                      THEN Min(@ + 1, 2) ELSE @]
    /\ Goto("mic", "cont_bytes")
    /\ sched' = "none"
    /\ UNCHANGED <<bytes, ptt_mode, enabled, ptt_active, speech_ended, micVars,
                   kbVars, locVars, cb, ret, cnt, obs>>
    /\ UNCHANGED sideVars

\* lines 898-900: listen_state.bytes_appended_since_commit = 0; continue
MsContBytes ==
    /\ MayResume("mic") /\ pc.mic = "cont_bytes"
    /\ bytes' = 0
    /\ UNCHANGED turn_state
    /\ Finish("cont")
    /\ Quiet
    /\ UNCHANGED <<ptt_mode, enabled, ptt_active, speech_ended, micVars,
                   kbVars, tmp, cb, ret, cnt, obs>>
    /\ UNCHANGED sideVars

\* ------------------------------------------------ keyboard listener thread
\* KeyboardListener._on_press, lines 767-785 (the key combination becomes
\* active while is_pressed is False), calling on_ptt_press, lines 920-925:
\* if not listen_state.ptt_mode: return; listen_state.ptt_active = True
KeyDown ==
    /\ Live /\ listenerOn /\ pc.kbd = "idle" /\ ~is_pressed
    /\ cnt.press < MaxPresses
    /\ is_pressed' = TRUE
    /\ cnt' = [cnt EXCEPT !.press = @ + 1]
    /\ IF ptt_mode
       THEN ptt_active' = TRUE /\ Goto("kbd", "kp_ts")
       ELSE UNCHANGED <<ptt_active, pc>>
    /\ Quiet
    /\ HKeep
    /\ UNCHANGED <<turn_state, bytes, ptt_mode, enabled, speech_ended, micVars,
                   listenerOn, locVars, cb, ret, sched, obs>>
    /\ UNCHANGED sideVars

\* on_ptt_press, line 927: listen_state.turn_state = "idle"
KpTs ==
    /\ Live /\ pc.kbd = "kp_ts"
    /\ turn_state' = "idle"
    /\ ObsWrite("idle")
    /\ Goto("kbd", "kp_bytes")
    /\ Quiet
    /\ UNCHANGED <<bytes, ptt_mode, enabled, ptt_active, speech_ended, micVars,
                   kbVars, locVars, cb, ret, sched, cnt, obs>>
    /\ UNCHANGED sideVars

\* on_ptt_press, lines 928-947: listen_state.bytes_appended_since_commit = 0;
\* the interruption of speech; then mic.start()
KpBytes ==
    /\ Live /\ pc.kbd = "kp_bytes"
    /\ bytes' = 0
    /\ obs' = [obs EXCEPT !.cap = 0]
    /\ Goto("kbd", "start_chk")
    /\ Quiet
    /\ HKeep
    /\ UNCHANGED <<turn_state, ptt_mode, enabled, ptt_active, speech_ended,
                   micVars, kbVars, locVars, cb, ret, sched, cnt>>
    /\ UNCHANGED sideVars

\* KeyboardListener._on_release, lines 787-805 (the combination ends while
\* is_pressed is True), calling on_ptt_release, lines 949-959:
\* if not listen_state.ptt_mode: return; listen_state.ptt_active = False;
\* mic.stop(commit=True)
KeyUp ==
    /\ Live /\ listenerOn /\ pc.kbd = "idle" /\ is_pressed
    /\ is_pressed' = FALSE
    /\ IF ptt_mode
       THEN /\ ptt_active' = FALSE
            /\ Goto("kbd", "stop_chk")
            /\ out' = NoOut
       ELSE /\ UNCHANGED <<ptt_active, pc>>
            /\ out' = [NoOut EXCEPT !.rel = "notptt"]
    /\ sent' = NoSend
    /\ HKeep
    /\ UNCHANGED <<turn_state, bytes, ptt_mode, enabled, speech_ended, micVars,
                   listenerOn, locVars, cb, ret, sched, cnt, obs>>
    /\ UNCHANGED sideVars

\* ------------------------------------------------------------- event_loop
\* line 1387: async for event in session delivers the next event.
NextEvent ==
    /\ MayResume("evt") /\ pc.evt = "recv"
    /\ cnt.event < MaxEvents
    /\ cnt' = [cnt EXCEPT !.event = @ + 1]

\* An event that the wait of mic_send_loop is waiting for arrives during it.
ObsEvent ==
    h' = IF Handling /\ h.sawAwait THEN [h EXCEPT !.speechEvt = TRUE]
         ELSE Settled(h)

\* lines 1392-1397: agent_start; if mic.running: mic.stop(commit=False)
EvAgentStart ==
    /\ NextEvent
    /\ IF running
       THEN Goto("evt", "stop_chk") /\ sched' = "evt"
       ELSE UNCHANGED <<pc, sched>>
    /\ Quiet
    /\ HKeep
    /\ UNCHANGED <<lsVars, micVars, kbVars, locVars, cb, ret, obs>>
    /\ UNCHANGED sideVars

\* lines 1399-1403: agent_end; await tts.flush()
EvAgentEnd ==
    /\ NextEvent
    /\ Goto("evt", "ae_flush")
    /\ Quiet
    /\ HKeep
    /\ UNCHANGED <<lsVars, micVars, kbVars, locVars, cb, ret, sched, obs>>
    /\ UNCHANGED sideVars

\* line 1406: listen_state.turn_state = "idle", once flush() has returned
EvAeTs ==
    /\ MayResume("evt") /\ pc.evt = "ae_flush"
    /\ turn_state' = "idle"
    /\ ObsWrite("idle")
    /\ Goto("evt", "ae_chk")
    /\ sched' = "evt"
    /\ Quiet
    /\ UNCHANGED <<bytes, ptt_mode, enabled, ptt_active, speech_ended, micVars,
                   kbVars, locVars, cb, ret, cnt, obs>>
    /\ UNCHANGED sideVars

\* An agent_end that never restarts the capture.
NeverRestarts(e, r) == FALSE

\* line 1409: if listen_state.enabled and not mic.running
Restarts(e, r) == e /\ ~r

\* lines 1409-1411: if listen_state.enabled and not mic.running: mic.start()
EvAeChk ==
    /\ InTask("evt") /\ pc.evt = "ae_chk"
    /\ IF Restarts(enabled, running)
       THEN Goto("evt", "start_chk") /\ UNCHANGED sched
       ELSE Goto("evt", "recv") /\ sched' = "none"
    /\ Quiet
    /\ HKeep
    /\ UNCHANGED <<lsVars, micVars, kbVars, locVars, cb, ret, cnt, obs>>
    /\ UNCHANGED sideVars

\* The guards of lines 1488 and 1497 left out.
InAnyState(ts) == TRUE

\* lines 1488, 1497: the server's end of turn counts only during the wait.
AwaitingEnd(ts) == ts = "awaiting_speech_end"

\* lines 1485-1488: input_audio_buffer.committed;
\* if listen_state.turn_state == "awaiting_speech_end"
EvCommitted ==
    /\ NextEvent
    /\ ObsEvent
    /\ IF AwaitingEnd(turn_state)
       THEN Goto("evt", "cm_ts") /\ sched' = "evt"
       ELSE UNCHANGED <<pc, sched>>
    /\ sent' = NoSend
    /\ out' = [NoOut EXCEPT !.ev = "committed"]
    /\ UNCHANGED <<lsVars, micVars, kbVars, locVars, cb, ret, obs>>
    /\ UNCHANGED sideVars

\* line 1489: listen_state.turn_state = "committed"
EvCmTs ==
    /\ InTask("evt") /\ pc.evt = "cm_ts"
    /\ turn_state' = "committed"
    /\ ObsWrite("committed")
    /\ Goto("evt", "cm_bytes")
    /\ Quiet
    /\ UNCHANGED <<bytes, ptt_mode, enabled, ptt_active, speech_ended, micVars,
                   kbVars, locVars, cb, ret, sched, cnt, obs>>
    /\ UNCHANGED sideVars

\* line 1490: listen_state.bytes_appended_since_commit = 0
EvCmBytes ==
    /\ InTask("evt") /\ pc.evt = "cm_bytes"
    /\ bytes' = 0
    /\ Goto("evt", "recv")
    /\ sched' = "none"
    /\ Quiet
    /\ HKeep
    /\ UNCHANGED <<turn_state, ptt_mode, enabled, ptt_active, speech_ended,
                   micVars, kbVars, locVars, cb, ret, cnt, obs>>
    /\ UNCHANGED sideVars

\* lines 1493-1498: input_audio_buffer.speech_stopped;
\* if listen_state.turn_state == "awaiting_speech_end": speech_ended_event.set()
EvSpeechStopped ==
    /\ NextEvent
    /\ ObsEvent
    /\ speech_ended' = (speech_ended \/ AwaitingEnd(turn_state))
    /\ sent' = NoSend
    /\ out' = [NoOut EXCEPT !.ev = "speech_stopped"]
    /\ UNCHANGED <<turn_state, bytes, ptt_mode, enabled, ptt_active, micVars,
                   kbVars, locVars, cb, ret, pc, sched, obs>>
    /\ UNCHANGED sideVars

\* -------------------------------------------------------- user_input_loop
\* line 1000: msg = await asyncio.to_thread(input, "") returns a command.
NextCmd ==
    /\ MayResume("inp") /\ pc.inp = "read"
    /\ cnt.cmd < MaxCmds
    /\ cnt' = [cnt EXCEPT !.cmd = @ + 1]

\* lines 1006-1009: /quit; listen_state.enabled = False; mic.stop(commit=False)
InQuit ==
    /\ NextCmd
    /\ enabled' = FALSE
    /\ Goto("inp", "stop_chk")
    /\ ret' = "q_close"
    /\ sched' = "inp"
    /\ Quiet
    /\ HKeep
    /\ UNCHANGED <<turn_state, bytes, ptt_mode, ptt_active, speech_ended,
                   micVars, kbVars, locVars, cb, obs>>
    /\ UNCHANGED sideVars

\* lines 1010-1011: await session.close(); return.  main() then cancels the
\* other tasks (lines 1826-1828).
InQClose ==
    /\ MayResume("inp") /\ pc.inp = "q_close"
    /\ Goto("inp", "done")
    /\ Quiet
    /\ HKeep
    /\ UNCHANGED <<lsVars, micVars, kbVars, locVars, cb, ret, sched, cnt, obs>>
    /\ UNCHANGED sideVars

\* lines 1013-1023: /mic; already in continuous mode: continue; otherwise
\* if listen_state.ptt_mode: listen_state.ptt_mode = False
InMic ==
    /\ NextCmd
    /\ IF enabled /\ ~ptt_mode
       THEN UNCHANGED <<ptt_mode, pc, sched>>
       ELSE /\ ptt_mode' = FALSE
            /\ Goto("inp", "m_lis")
            /\ sched' = "inp"
    /\ Quiet
    /\ HKeep
    /\ UNCHANGED <<turn_state, bytes, enabled, ptt_active, speech_ended,
                   micVars, kbVars, locVars, cb, ret, obs>>
    /\ UNCHANGED sideVars

\* lines 1025-1031: ptt_state.keyboard_listener.stop();
\* listen_state.enabled = True; mic.stop(commit=False)
InMLis ==
    /\ InTask("inp") /\ pc.inp = "m_lis"
    /\ listenerOn' = FALSE
    /\ enabled' = TRUE
    /\ Goto("inp", "stop_chk")
    /\ ret' = "m_int"
    /\ Quiet
    /\ HKeep
    /\ UNCHANGED <<turn_state, bytes, ptt_mode, ptt_active, speech_ended,
                   micVars, is_pressed, locVars, cb, sched, cnt, obs>>
    /\ UNCHANGED sideVars

\* lines 1035-1037: await session.interrupt() returns; player.clear();
\* mic.start()
InMInt ==
    /\ MayResume("inp") /\ pc.inp = "m_int"
    /\ Goto("inp", "start_chk")
    /\ sched' = "inp"
    /\ Quiet
    /\ HKeep
    /\ UNCHANGED <<lsVars, micVars, kbVars, locVars, cb, ret, cnt, obs>>
    /\ UNCHANGED sideVars

KeepsContinuous(e) == e

\* lines 1049-1050: listen_state.enabled after the branch of /ptt.
LeavesContinuous(e) == FALSE

\* lines 1040-1051: /ptt; already in push-to-talk mode: continue; otherwise
\* if listen_state.enabled: listen_state.enabled = False; mic.stop(commit=False)
InPtt ==
    /\ NextCmd
    /\ IF ptt_mode
       THEN UNCHANGED <<enabled, pc, sched, ret>>
       ELSE /\ enabled' = LeavesContinuous(enabled)
            /\ sched' = "inp"
            /\ IF enabled
               THEN Goto("inp", "stop_chk") /\ ret' = "p_mode"
               ELSE Goto("inp", "p_mode") /\ UNCHANGED ret
    /\ Quiet
    /\ HKeep
    /\ UNCHANGED <<turn_state, bytes, ptt_mode, ptt_active, speech_ended,
                   micVars, kbVars, locVars, cb, obs>>
    /\ UNCHANGED sideVars

\* line 1054: listen_state.ptt_mode = True
InPMode ==
    /\ InTask("inp") /\ pc.inp = "p_mode"
    /\ ptt_mode' = TRUE
    /\ Goto("inp", "p_lis")
    /\ Quiet
    /\ HKeep
    /\ UNCHANGED <<turn_state, bytes, enabled, ptt_active, speech_ended,
                   micVars, kbVars, locVars, cb, ret, sched, cnt, obs>>
    /\ UNCHANGED sideVars

\* lines 1057-1068: a new KeyboardListener is created and started; continue
InPLis ==
    /\ InTask("inp") /\ pc.inp = "p_lis"
    /\ listenerOn' = TRUE
    /\ is_pressed' = FALSE
    /\ Goto("inp", "read")
    /\ sched' = "none"
    /\ Quiet
    /\ HKeep
    /\ UNCHANGED <<lsVars, micVars, locVars, cb, ret, cnt, obs>>
    /\ UNCHANGED sideVars

\* ------------------------------------------------------------------ Next
Next ==
    \/ \E p \in Callers : StartChk(p)
    \/ \E p \in Callers : StartSet(p)
    \/ \E p \in Callers : StartStream(p)
    \/ \E p \in Callers : StopChk(p)
    \/ \E p \in Callers : StopSet(p)
    \/ \E p \in Callers : StopStream(p)
    \/ \E p \in Callers : StopPut(p)
    \/ CbInvoke
    \/ CbPut
    \/ MsGetChunk
    \/ MsIncWrite
    \/ MsGetSentinel
    \/ MsChkMin
    \/ MsDropTs
    \/ MsDropBytes
    \/ MsSetAwait
    \/ MsWhile
    \/ MsSilSend
    \/ MsSilIncRead
    \/ MsSilInc
    \/ MsWaitEvt
    \/ MsWaitTimeout
    \/ MsToTs
    \/ MsToBytes
    \/ MsContSend
    \/ MsContBytes
    \/ KeyDown
    \/ KpTs
    \/ KpBytes
    \/ KeyUp
    \/ EvAgentStart
    \/ EvAgentEnd
    \/ EvAeTs
    \/ EvAeChk
    \/ EvCommitted
    \/ EvCmTs
    \/ EvCmBytes
    \/ EvSpeechStopped
    \/ InQuit
    \/ InQClose
    \/ InMic
    \/ InMLis
    \/ InMInt
    \/ InPtt
    \/ InPMode
    \/ InPLis

Spec == Init /\ [][Next]_vars

\* The budgets of inputs of a run of FairSpec.
WaitPresses == 2
WaitChunks  == 1
WaitEvents  == 2
WaitCmds    == 1

\* Init with part of the budget of inputs already spent.
WaitInit ==
    /\ \E ptt \in BOOLEAN :
          CoreInit(ptt, [press |-> MaxPresses - WaitPresses,
                         chunk |-> MaxChunks - WaitChunks,
                         event |-> MaxEvents - WaitEvents,
                         cmd |-> MaxCmds - WaitCmds])
    /\ SideUnused

\* ------------------------------------------------------------- scheduling
\* A step of mic_send_loop, lines 825-904.
MicStep ==
    \/ MsGetChunk \/ MsIncWrite \/ MsGetSentinel \/ MsChkMin \/ MsDropTs
    \/ MsDropBytes \/ MsSetAwait \/ MsWhile \/ MsSilSend \/ MsSilIncRead
    \/ MsSilInc \/ MsWaitEvt \/ MsWaitTimeout \/ MsToTs \/ MsToBytes
    \/ MsContSend \/ MsContBytes

\* A step, other than an await, of the handler of a server event or of a
\* console command; the handler holds the scheduler thread until it is over.
HolderStep ==
    \/ EvAeChk \/ EvCmTs \/ EvCmBytes \/ InMLis \/ InPMode \/ InPLis
    \/ \E p \in {"evt", "inp"} :
          \/ StartChk(p) \/ StartSet(p) \/ StartStream(p)
          \/ StopChk(p) \/ StopSet(p) \/ StopStream(p) \/ StopPut(p)

\* The runs in which send_audio calls return and the clock advances: the
\* asyncio loop resumes mic_send_loop when it is ready (its awaits of
\* send_audio, wait_for and sleep return), a handler that holds the thread
\* runs on to its next await, and the capture callback in progress returns.
\* The arrival of server events, commands and key events is not forced.
FairSpec ==
    WaitInit /\ [][Next]_vars
         /\ WF_vars(MicStep) /\ WF_vars(HolderStep) /\ WF_vars(CbPut)

\* The runs of FairSpec in which, besides, every flush() that agent_end
\* awaits returns (line 1403), so that event_loop goes on at line 1406.
RestartSpec ==
    WaitInit /\ [][Next]_vars
         /\ WF_vars(MicStep) /\ WF_vars(HolderStep) /\ WF_vars(CbPut)
         /\ WF_vars(EvAeTs)

\* ------------------------------------------------------ mode switches
\* The budgets of inputs of a run of ModeSpec: a sequence of console commands
\* around one turn.
ModePresses == 1
ModeChunks  == 1
ModeEvents  == 1
ModeCmds    == 3

ModeInit ==
    /\ \E ptt \in BOOLEAN :
          CoreInit(ptt, [press |-> MaxPresses - ModePresses,
                         chunk |-> MaxChunks - ModeChunks,
                         event |-> MaxEvents - ModeEvents,
                         cmd |-> MaxCmds - ModeCmds])
    /\ SideUnused

ModeSpec == ModeInit /\ [][Next]_vars

\* ================================================== keepalive_loop (KeepSpec)
\* keepalive_loop, lines 1203-1229, as one more task of the scheduler thread
\* beside the turn-taking tasks.  The three reads of line 1213-1217 are of
\* state that the keyboard thread writes, so each is a step of its own.
MaxKeepalives == 2       \* wake-ups of keepalive_loop in a run
KeepPresses   == 1
KeepChunks    == 1
KeepEvents    == 1
KeepCmds      == 1

KEEPALIVE_BYTES == 48    \* line 1222

KeepInit ==
    /\ \E ptt \in BOOLEAN :
          CoreInit(ptt, [press |-> MaxPresses - KeepPresses,
                         chunk |-> MaxChunks - KeepChunks,
                         event |-> MaxEvents - KeepEvents,
                         cmd |-> MaxCmds - KeepCmds])
    /\ ka = [pc |-> "sleep", n |-> 0]
    /\ tts = "unused" /\ txt = "unused" /\ kl = "unused"
    /\ hm = "unused" /\ mn = "unused" /\ pl = "unused"
    /\ risk = "unused" /\ fsp = "unused" /\ sup = "unused"

\* keepalive_loop goes on to label l, or, with the check failed, back to its
\* sleep (line 1227: pass), which frees the scheduler thread.
KaGoto(ok, l) ==
    /\ ka' = [ka EXCEPT !.pc = IF ok THEN l ELSE "sleep"]
    /\ sched' = IF ok THEN "ka" ELSE "none"
    /\ HKeep
    /\ UNCHANGED <<lsVars, micVars, kbVars, pc, ret, item, tmp, elapsed, cb,
                   cnt, obs, tts, txt, kl, hm, mn, pl, risk, fsp, sup>>

\* lines 1209, 1214: await asyncio.sleep(KEEPALIVE_INTERVAL) returns;
\* not mic.running
KaWake ==
    /\ MayResume("ka") /\ ka.pc = "sleep" /\ ka.n < MaxKeepalives
    /\ ka' = [pc |-> IF ~running THEN "ts" ELSE "sleep", n |-> ka.n + 1]
    /\ sched' = IF ~running THEN "ka" ELSE "none"
    /\ HKeep
    /\ Quiet
    /\ UNCHANGED <<lsVars, micVars, kbVars, pc, ret, item, tmp, elapsed, cb,
                   cnt, obs, tts, txt, kl, hm, mn, pl, risk, fsp, sup>>

\* line 1215: and listen_state.turn_state == "idle"
KaReadTs ==
    /\ InTask("ka") /\ ka.pc = "ts"
    /\ KaGoto(turn_state = "idle", "ptt")
    /\ Quiet

\* line 1216: and not listen_state.ptt_active
KaReadPtt ==
    /\ InTask("ka") /\ ka.pc = "ptt"
    /\ KaGoto(~ptt_active, "send")
    /\ Quiet

\* lines 1219-1223: if is_idle: await session.send_audio(silence, commit=False)
KaSend ==
    /\ InTask("ka") /\ ka.pc = "send"
    /\ KaGoto(FALSE, "sleep")
    /\ Send("keepalive", KEEPALIVE_BYTES, FALSE)

KeepNext == Next \/ KaWake \/ KaReadTs \/ KaReadPtt \/ KaSend

KeepSpec == KeepInit /\ [][KeepNext]_vars

\* ===================================== connection_health_monitor (HealthSpec)
\* connection_health_monitor, lines 1174-1200, with the clock and the arrival
\* of server events (event_loop, line 1389).  Time is counted in minutes here:
\* the monitor wakes once a minute, and its comparisons only tell idle times
\* below, at, and above the two thresholds apart.
MaxChecks == 24                  \* checks of the monitor in a run

IDLE_WARNING_THRESHOLD == 10     \* line 1177: 600 s
IDLE_ERROR_THRESHOLD   == 15     \* line 1178: 900 s
CHECK_INTERVAL         == 1      \* line 1183: 60 s

\* main(), line 1817: last_server_event_time is set before the tasks start;
\* line 1180: warned = False.  idle, emitted, since and log observe the checks:
\* the idle time the latest check computed, what it printed, how many
\* warnings were printed since a check last saw an idle time below the
\* warning threshold, and the warnings printed since the latest server event.
HealthInit ==
    /\ CoreInit(FALSE, Spent0)
    /\ hm = [now |-> 0, last_server_event_time |-> 0, warned |-> FALSE,
             idle |-> 0, emitted |-> "none", since |-> 0, log |-> <<>>]
    /\ tts = "unused" /\ txt = "unused" /\ kl = "unused"
    /\ ka = "unused" /\ mn = "unused" /\ pl = "unused"
    /\ risk = "unused" /\ fsp = "unused" /\ sup = "unused"

AlwaysArmed(warned) == TRUE

\* "and not warned", lines 1191 and 1195.
Armed(warned) == ~warned

\* What a check with the given idle time prints, lines 1191-1197.
Emits(idle_time, warned) ==
    IF idle_time > IDLE_ERROR_THRESHOLD /\ Armed(warned) THEN "error"
    ELSE IF idle_time > IDLE_WARNING_THRESHOLD /\ Armed(warned) THEN "warning"
    ELSE "none"

\* lines 1183-1200: await asyncio.sleep(60) returns and one check runs.
HmCheck ==
    /\ hm.now < MaxChecks * CHECK_INTERVAL
    /\ LET now == hm.now + CHECK_INTERVAL
           idle_time == now - hm.last_server_event_time
           e == Emits(idle_time, hm.warned)
       IN hm' = [hm EXCEPT
                   !.now = now,
                   !.idle = idle_time,
                   !.emitted = e,
                   !.warned = IF e # "none" THEN TRUE
                              ELSE IF idle_time < IDLE_WARNING_THRESHOLD
                              THEN FALSE ELSE @,
                   !.since = IF idle_time < IDLE_WARNING_THRESHOLD THEN 0
                             ELSE IF e # "none" THEN @ + 1 ELSE @,
                   !.log = IF e # "none" THEN Append(@, e) ELSE @]
    /\ UNCHANGED <<coreVars, tts, txt, kl, ka, mn, pl, risk, fsp, sup>>

\* event_loop, line 1389: a server event arrives.
FreshEvent ==
    /\ hm.last_server_event_time < hm.now
    /\ hm' = [hm EXCEPT !.last_server_event_time = hm.now, !.log = <<>>,
                        !.emitted = "none"]
    /\ UNCHANGED <<coreVars, tts, txt, kl, ka, mn, pl, risk, fsp, sup>>

HealthNext == HmCheck \/ FreshEvent

HealthSpec == HealthInit /\ [][HealthNext]_vars

\* ==================================================== main() (MainSpec)
\* main(), lines 1752-1838, and the two device streams it acquires: the
\* playback stream of AudioPlayer and the capture stream of MicStreamer.  A
\* constructor or a start() of a device, the start of the key listener and the
\* entry of the session can raise; the statements of the finally block are
\* taken to succeed.
MaxCaptures == 4     \* starts and stops of capture by the handlers in a run

\* player, mic: "none", "open" (stream constructed), "started", "closed";
\* running: MicStreamer._running; tasks: "none", "running", "done" (one of
\* them finished), "cancelled"; why: what ended the session; log: the
\* shutdown steps so far.
MainInit ==
    /\ CoreInit(FALSE, Spent0)
    /\ \E ptt \in BOOLEAN :
          mn = [pc |-> "player", ptt_enabled |-> ptt, player |-> "none",
                mic |-> "none", running |-> FALSE, listener |-> FALSE,
                tasks |-> "none", why |-> "none", log |-> <<>>, n |-> 0]
    /\ tts = "unused" /\ txt = "unused" /\ kl = "unused"
    /\ ka = "unused" /\ hm = "unused" /\ pl = "unused"
    /\ risk = "unused" /\ fsp = "unused" /\ sup = "unused"

\* An exception that no try block of main() encloses: main() is left at once.
MnRaise(m) == [m EXCEPT !.pc = "returned", !.why = "raised"]

MnFrame == UNCHANGED <<coreVars, tts, txt, kl, ka, hm, pl, risk, fsp, sup>>

\* lines 1752-1753: player = AudioPlayer(samplerate=24000); player.start()
MnPlayer(outcome) ==
    /\ mn.pc = "player"
    /\ mn' = CASE outcome = "ok" ->
                    [mn EXCEPT !.player = "started", !.pc = "mic"]
               [] outcome = "new_raises" -> MnRaise(mn)
               [] outcome = "start_raises" ->
                    MnRaise([mn EXCEPT !.player = "open"])
    /\ MnFrame

\* lines 1761-1765: mic = MicStreamer(...)
MnMic(ok) ==
    /\ mn.pc = "mic"
    /\ mn' = IF ok THEN [mn EXCEPT !.mic = "open", !.pc = "listen"]
             ELSE MnRaise(mn)
    /\ MnFrame

\* lines 1789-1803: if ptt_enabled: keyboard_listener.start()
\* else: listen_state.enabled = True; mic.start()
MnListen(ok) ==
    /\ mn.pc = "listen"
    /\ mn' = IF mn.ptt_enabled
             THEN IF ok THEN [mn EXCEPT !.listener = TRUE, !.pc = "enter"]
                  ELSE MnRaise(mn)
             ELSE IF ok THEN [mn EXCEPT !.running = TRUE, !.mic = "started",
                                        !.pc = "enter"]
                  \* MicStreamer.start(), lines 628-629: _running is set
                  \* before self._stream.start() raises
                  ELSE MnRaise([mn EXCEPT !.running = TRUE])
    /\ MnFrame

\* lines 1813-1826: try: async with session: ...; the five tasks are created
\* and main() waits for the first of them to finish.
MnEnter(ok) ==
    /\ mn.pc = "enter"
    /\ mn' = IF ok THEN [mn EXCEPT !.tasks = "running", !.pc = "wait"]
             ELSE [mn EXCEPT !.why = "raised", !.pc = "finally"]
    /\ MnFrame

\* The handlers start and stop capture while the session runs: on_ptt_press
\* and on_ptt_release on the keyboard thread (lines 947, 958), which runs
\* until the listener is stopped, and event_loop on agent_start and
\* agent_end in continuous mode (lines 1396, 1409-1410).
MnCapture ==
    /\ mn.n < MaxCaptures
    /\ IF mn.ptt_enabled
       THEN mn.listener /\ mn.pc \in {"wait", "woke"}
       ELSE mn.tasks = "running"
    /\ mn' = [mn EXCEPT !.running = ~@, !.n = @ + 1,
                        !.mic = IF mn.running THEN "open" ELSE "started"]
    /\ MnFrame

\* user_input_loop, lines 1006-1011: /quit; listen_state.enabled = False;
\* mic.stop(commit=False); await session.close(); return
MnQuit ==
    /\ mn.pc = "wait" /\ mn.tasks = "running"
    /\ mn' = [mn EXCEPT !.running = FALSE,
                        !.mic = IF mn.running THEN "open" ELSE @,
                        !.log = Append(@, "capture_stopped"),
                        !.tasks = "done", !.why = "quit", !.pc = "woke"]
    /\ MnFrame

\* One of the five tasks ends on its own: it raised, or event_loop ran out of
\* events because the server closed the session.
MnTaskEnds ==
    /\ mn.pc = "wait" /\ mn.tasks = "running"
    /\ mn' = [mn EXCEPT !.tasks = "done", !.why = "task_ended", !.pc = "woke"]
    /\ MnFrame

\* lines 1826-1828: asyncio.wait returns; for task in pending: task.cancel();
\* the session is left.
MnCancel ==
    /\ mn.pc = "woke"
    /\ mn' = [mn EXCEPT !.tasks = "cancelled", !.pc = "finally",
                        !.log = Append(@, IF mn.running
                                          THEN "cancelled_while_capturing"
                                          ELSE "cancelled")]
    /\ MnFrame

\* lines 1829-1838, the finally block, a statement at a time:
\* keyboard_listener.stop(); mic.stop(commit=False) and mic.close();
\* player.stop()
MnRelease ==
    /\ mn.pc \in {"finally", "release_mic", "release_player"}
    /\ mn' = CASE mn.pc = "finally" ->
                    [mn EXCEPT !.listener = FALSE, !.pc = "release_mic"]
               [] mn.pc = "release_mic" ->
                    [mn EXCEPT !.running = FALSE, !.mic = "closed",
                               !.pc = "release_player",
                               !.log = IF mn.running
                                       THEN Append(@, "capture_stopped")
                                       ELSE @]
               [] mn.pc = "release_player" ->
                    [mn EXCEPT !.player = "closed", !.pc = "returned",
                               !.log = Append(@, "released")]
    /\ MnFrame

MainNext ==
    \/ \E outcome \in {"ok", "new_raises", "start_raises"} : MnPlayer(outcome)
    \/ \E ok \in BOOLEAN : MnMic(ok)
    \/ \E ok \in BOOLEAN : MnListen(ok)
    \/ \E ok \in BOOLEAN : MnEnter(ok)
    \/ MnCapture
    \/ MnQuit
    \/ MnTaskEnds
    \/ MnCancel
    \/ MnRelease

MainSpec == MainInit /\ [][MainNext]_vars

\* ======================================= AudioPlayer's buffer (PlaySpec)
\* AudioPlayer.write and AudioPlayer._callback, lines 429-461, on the bytes
\* themselves: the buffer and the device's output block are sequences of
\* bytes.  Both run under self._lock, so each is one step.
MaxBufLen  == 5      \* bytes the buffer holds at most
MaxRequest == 4      \* bytes the device asks for in one callback
MaxWrite   == 2      \* bytes of one write

\* Sample bytes: silence and one other value.
PcmBytes == {0, 1}

WritesOf(n) == UNION {[1 .. k -> PcmBytes] : k \in 1 .. n}

\* line 398-403: self._buf = bytearray().  before, nbytes and outdata observe
\* the latest callback: the buffer it found, the length of the block it was
\* asked to fill, and the block it delivered.
PlayInit ==
    /\ CoreInit(FALSE, Spent0)
    /\ pl = [buf |-> <<>>, before |-> <<>>, nbytes |-> 0, outdata |-> <<>>]
    /\ tts = "unused" /\ txt = "unused" /\ kl = "unused"
    /\ ka = "unused" /\ hm = "unused" /\ mn = "unused"
    /\ risk = "unused" /\ fsp = "unused" /\ sup = "unused"

NoPadding(k) == <<>>

\* line 459: b"\x00" * k
Padding(k) == [i \in 1 .. k |-> 0]

\* lines 429-437: write(pcm_bytes); an empty write returns at once.
PlWrite(pcm_bytes) ==
    /\ Len(pl.buf) + Len(pcm_bytes) <= MaxBufLen
    /\ pl' = [buf |-> pl.buf \o pcm_bytes, before |-> <<>>, nbytes |-> 0,
              outdata |-> <<>>]
    /\ UNCHANGED <<coreVars, tts, txt, kl, ka, hm, mn, risk, fsp, sup>>

\* lines 447-461: _callback(outdata, ...) with len(outdata) = nbytes
PlCallback(nbytes) ==
    /\ LET full == Len(pl.buf) >= nbytes
           chunk == IF full THEN SubSeq(pl.buf, 1, nbytes) ELSE pl.buf
           rest == IF full THEN SubSeq(pl.buf, nbytes + 1, Len(pl.buf))
                   ELSE <<>>
           padded == IF Len(chunk) < nbytes
                     THEN chunk \o Padding(nbytes - Len(chunk))
                     ELSE chunk
       IN pl' = [buf |-> rest, before |-> pl.buf, nbytes |-> nbytes,
                 outdata |-> padded]
    /\ UNCHANGED <<coreVars, tts, txt, kl, ka, hm, mn, risk, fsp, sup>>

PlayNext ==
    \/ \E pcm_bytes \in WritesOf(MaxWrite) : PlWrite(pcm_bytes)
    \/ \E nbytes \in 1 .. MaxRequest : PlCallback(nbytes)

PlaySpec == PlayInit /\ [][PlayNext]_vars

\* ========================================= pty_command_safety (RiskSpec)
\* src/pty_command_safety.py on command lines.  A command line is a sequence
\* of words and shell operators, written with single blanks between them, so
\* that shlex.split yields the words.
MaxWords == 3        \* words and operators in a command line

\* The words of the command lines: a command of SAFE_COMMANDS, one of
\* DANGEROUS_COMMANDS, one of neither set, and a flag.
Words == {"ls", "rm", "mkdir", "-rf"}
\* The operators that separate the segments of a line, and a redirection.
Separators == {";", "&&", "||", "|"}
Operators == Separators \cup {">"}

CommandLines == UNION {[1 .. k -> Words \cup Operators] : k \in 0 .. MaxWords}

\* lines 25-56, the members that occur in Words.
SAFE_COMMANDS == {"ls"}
DANGEROUS_COMMANDS == {"rm"}

\* lines 59-68 and 116-129.  Of DANGEROUS_PATTERNS only rm\s+.*-[rf] can
\* match a line over Words: "rm", a blank, and "-r" or "-f" further on.
has_dangerous_pattern(command) ==
    \E i, j \in DOMAIN command : i < j /\ command[i] = "rm" /\ command[j] = "-rf"

\* line 89: one of "|", "&&", "||", ";", ">", "<", ">>" occurs in the line.
HasOperator(command) == \E i \in DOMAIN command : command[i] \in Operators

\* line 91: re.split(r'[|&;<>]', command_string)[0]
FirstPart(command) ==
    IF HasOperator(command)
    THEN LET i == CHOOSE i \in DOMAIN command :
                     /\ command[i] \in Operators
                     /\ \A j \in 1 .. i - 1 : command[j] \notin Operators
         IN SubSeq(command, 1, i - 1)
    ELSE command

\* lines 71-113: the base command (no word of Words has a path) and its
\* arguments; base "" when the first part is empty.
parse_command(command) ==
    LET parts == FirstPart(command)
    IN IF parts = <<>> THEN [base |-> "", args |-> <<>>]
       ELSE [base |-> parts[1], args |-> Tail(parts)]

\* lines 132-179; the checks of find and grep arguments (169-173) do not
\* apply to Words.
assess_command_risk(command) ==
    IF command = <<>> THEN "RISKY"
    ELSE IF has_dangerous_pattern(command) THEN "DANGEROUS"
    ELSE LET p == parse_command(command)
         IN IF p.base = "" THEN "RISKY"
            ELSE IF p.base \in DANGEROUS_COMMANDS THEN "DANGEROUS"
            ELSE IF p.base \in SAFE_COMMANDS
                 THEN IF \E i \in DOMAIN command : command[i] \in {">", "|", "||"}
                      THEN "RISKY" ELSE "SAFE"
            ELSE "RISKY"

RiskInit ==
    /\ CoreInit(FALSE, Spent0)
    /\ risk = [command |-> <<>>, level |-> "none", approved |-> FALSE,
               prompted |-> FALSE]
    /\ tts = "unused" /\ txt = "unused" /\ kl = "unused"
    /\ ka = "unused" /\ hm = "unused" /\ mn = "unused"
    /\ pl = "unused" /\ fsp = "unused" /\ sup = "unused"

\* lines 278-312: check_pty_command on a command line; answer is what the
\* user replies when prompted.
check_pty_command(command, require_approval, answer) ==
    /\ LET level == assess_command_risk(command)
       IN risk' =
            IF command = <<>>
            THEN [command |-> command, level |-> "none", approved |-> FALSE,
                  prompted |-> FALSE]
            ELSE IF ~require_approval
            THEN [command |-> command, level |-> "none", approved |-> TRUE,
                  prompted |-> FALSE]
            ELSE IF level = "SAFE"
            THEN [command |-> command, level |-> level, approved |-> TRUE,
                  prompted |-> FALSE]
            ELSE [command |-> command, level |-> level, approved |-> answer,
                  prompted |-> TRUE]
    /\ UNCHANGED <<coreVars, tts, txt, kl, ka, hm, mn, pl, fsp, sup>>

RiskNext ==
    \E command \in CommandLines, require_approval, answer \in BOOLEAN :
        check_pty_command(command, require_approval, answer)

RiskSpec == RiskInit /\ [][RiskNext]_vars

\* ============================================ filesystem proxy (ProxySpec)
\* call_tool of src/filesystem_proxy_mcp.py with check_filesystem_operation of
\* src/filesystem_safety.py, over a file system of two files and a directory.
Paths == {"f", "g"}

\* filesystem_proxy_mcp.py, lines 39-199: the tools the claim names.
FILESYSTEM_TOOLS == {"read_file", "write_file", "edit_file",
                     "create_directory", "list_directory", "move_file",
                     "get_file_info"}

\* filesystem_safety.py, lines 17-34.
WRITE_OPERATIONS == {"write_file", "edit_file", "create_file"}
DELETE_MOVE_OPERATIONS == {"delete_file", "move_file", "remove_file"}
is_risky_operation(tool_name) ==
    tool_name \in WRITE_OPERATIONS \cup DELETE_MOVE_OPERATIONS

\* What the user replies to the prompt; "eof" is EOFError or
\* KeyboardInterrupt.
Answers == {"y", "n", "a", "eof"}

\* filesystem_safety.py, lines 165-183: prompt_confirmation's result.
prompt_confirmation(answer) ==
    CASE answer = "y" -> [approved |-> TRUE, reason |-> "None"]
      [] answer = "n" ->
           [approved |-> FALSE, reason |-> "User denied filesystem operation"]
      [] answer = "a" ->
           [approved |-> FALSE, reason |-> "User aborted agent execution"]
      [] answer = "eof" ->
           [approved |-> FALSE,
            reason |-> "User interrupted confirmation prompt"]

\* filesystem_safety.py, lines 186-219.
check_filesystem_operation(tool_name, require_approval, answer) ==
    IF ~require_approval \/ ~is_risky_operation(tool_name)
    THEN [approved |-> TRUE, reason |-> "None", prompted |-> FALSE]
    ELSE [approved |-> prompt_confirmation(answer).approved,
          reason |-> prompt_confirmation(answer).reason, prompted |-> TRUE]

\* filesystem_proxy_mcp.py, lines 202-299: the file system after the tool has
\* run.  files gives each path's content, "absent" for none; dir tells
\* whether the directory exists.
call_filesystem_mcp(fs, tool_name, path, destination) ==
    CASE tool_name = "write_file" ->
           [fs EXCEPT !.files[path] = "new"]
      [] tool_name = "edit_file" ->
           IF fs.files[path] = "absent" THEN fs
           ELSE [fs EXCEPT !.files[path] = "new"]
      [] tool_name = "create_directory" -> [fs EXCEPT !.dir = TRUE]
      [] tool_name = "move_file" ->
           IF fs.files[path] = "absent" \/ path = destination THEN fs
           ELSE [fs EXCEPT !.files[destination] = fs.files[path],
                           !.files[path] = "absent"]
      [] OTHER -> fs

ProxyInit ==
    /\ CoreInit(FALSE, Spent0)
    /\ \E files \in [Paths -> {"absent", "old"}] :
          fsp = [fs |-> [files |-> files, dir |-> FALSE],
                 before |-> [files |-> files, dir |-> FALSE],
                 name |-> "none", require_approval |-> TRUE,
                 prompted |-> FALSE, answer |-> "none", approved |-> FALSE,
                 reason |-> "None", executed |-> FALSE]
    /\ tts = "unused" /\ txt = "unused" /\ kl = "unused"
    /\ ka = "unused" /\ hm = "unused" /\ mn = "unused"
    /\ pl = "unused" /\ risk = "unused" /\ sup = "unused"

\* filesystem_proxy_mcp.py, lines 308-330: call_tool(name, arguments) with
\* FILESYSTEM_REQUIRE_APPROVAL as given.
call_tool(name, path, destination, require_approval, answer) ==
    /\ LET asked == require_approval /\ is_risky_operation(name)
           chk == IF asked
                  THEN check_filesystem_operation(name, TRUE, answer)
                  ELSE [approved |-> TRUE, reason |-> "None",
                        prompted |-> FALSE]
           run == ~asked \/ chk.approved
       IN fsp' = [fs |-> IF run
                         THEN call_filesystem_mcp(fsp.fs, name, path,
                                                  destination)
                         ELSE fsp.fs,
                  before |-> fsp.fs,
                  name |-> name, require_approval |-> require_approval,
                  prompted |-> chk.prompted,
                  answer |-> IF chk.prompted THEN answer ELSE "none",
                  approved |-> chk.approved, reason |-> chk.reason,
                  executed |-> run]
    /\ UNCHANGED <<coreVars, tts, txt, kl, ka, hm, mn, pl, risk, sup>>

ProxyNext ==
    \E name \in FILESYSTEM_TOOLS, path, destination \in Paths,
       require_approval \in BOOLEAN, answer \in Answers :
        call_tool(name, path, destination, require_approval, answer)

ProxySpec == ProxyInit /\ [][ProxyNext]_vars

\* ====================================================== SupervisorAgent (SupSpec)
\* src/supervisor.py, SupervisorAgent.process (lines 483-670): an async
\* generator that asks the model for a streamed response, runs the tool
\* calls the stream announces and feeds their outputs to the next round.
\* sup is a record:
\*   pc               where the generator stands
\*   current_round    the local of that name
\*   got_text_output  the local of that name
\*   pending          len(pending_function_calls)
\*   call_id          the tool call being run carries a call_id
\*   left             events the response stream of this round may still bring
\*   last             the chunk yielded last
\*   completes        chunks yielded at line 660
\*   raised           chunks yielded at line 667

\* How many events one response stream brings at most.
MaxStreamEvents == 2

\* line 504
max_rounds == 10

NoChunk == [type |-> "none", content |-> ""]

\* What the response stream brings next: events of the types the loop
\* tells apart (544-631), or an exception of the iteration.
StreamItems == {"response.output_text.delta", "response.output_item.added",
                "response.reasoning_summary.done", "response.completed",
                "error", "raises"}

SupFrame == UNCHANGED <<coreVars, tts, txt, kl, ka, hm, mn, pl, risk, fsp>>

SupInit ==
    /\ CoreInit(FALSE, Spent0)
    /\ tts = "unused" /\ txt = "unused" /\ kl = "unused"
    /\ ka = "unused" /\ hm = "unused" /\ mn = "unused"
    /\ pl = "unused" /\ risk = "unused" /\ fsp = "unused"
    /\ sup = [pc |-> "build", current_round |-> 0, got_text_output |-> FALSE,
              pending |-> 0, call_id |-> FALSE, left |-> 0, last |-> NoChunk,
              completes |-> 0, raised |-> 0]

\* yield SupervisorChunk(type=..., content=...)
Yield(s, type, content) ==
    [s EXCEPT !.last = [type |-> type, content |-> content]]

\* lines 498-508: the tool list (its builder _build_tools catches what its
\* sources raise, 338-372), the input messages and the loop's locals.
SupBuild ==
    /\ sup.pc = "build"
    /\ sup' = [sup EXCEPT !.pc = "while", !.current_round = 0]
    /\ SupFrame

\* A loop without the bound on the rounds.
RoundAlways(current_round) == TRUE

\* line 511: while current_round < max_rounds
RoundAllowed(current_round) == current_round < max_rounds

\* lines 511-541: the loop test; a round counts itself and creates the
\* streaming response, and the call either returns the stream or raises.
SupWhile(created) ==
    /\ sup.pc = "while"
    /\ sup' = IF ~RoundAllowed(sup.current_round)
              THEN [sup EXCEPT !.pc = "complete"]
              ELSE IF created
              THEN [sup EXCEPT !.pc = "events",
                               !.current_round = @ + 1,
                               !.pending = 0, !.got_text_output = FALSE,
                               !.left = MaxStreamEvents]
              ELSE [sup EXCEPT !.pc = "except", !.current_round = @ + 1]
    /\ SupFrame

\* lines 544-569 and 614-631: one event of the stream other than a finished
\* tool call.  Text, a reasoning summary and an error event are passed on
\* as chunks; an added item and the completed response yield nothing.
SupEvent(e) ==
    /\ sup.pc = "events" /\ sup.left > 0
    /\ LET s == [sup EXCEPT !.left = @ - 1] IN
       sup' = CASE e = "response.output_text.delta" ->
                     Yield([s EXCEPT !.got_text_output = TRUE],
                           "text_delta", "delta")
                [] e = "response.reasoning_summary.done" ->
                     Yield(s, "reasoning", "summary")
                [] e = "error" -> Yield(s, "error", "error")
                [] e = "raises" -> [s EXCEPT !.pc = "except"]
                [] OTHER -> s
    /\ SupFrame

\* lines 571-590: response.function_call_arguments.done.  json.loads raises
\* on arguments that are not JSON; otherwise tool_start is yielded, and a
\* namespaced or native tool is executed.
SupArgsDone(valid, executable, call_id) ==
    /\ sup.pc = "events" /\ sup.left > 0
    /\ sup' = IF ~valid
              THEN [sup EXCEPT !.pc = "except", !.left = @ - 1]
              ELSE Yield([sup EXCEPT !.left = @ - 1,
                                     !.call_id = executable /\ call_id,
                                     !.pc = IF executable THEN "execute"
                                            ELSE "events"],
                         "tool_start", "tool")
    /\ SupFrame

\* lines 593-612: the tool returns or raises; both ways tool_end is yielded
\* and a call with a call_id joins the pending function calls.
SupExecute(ok) ==
    /\ sup.pc = "execute"
    /\ sup' = Yield([sup EXCEPT !.pc = "events", !.call_id = FALSE,
                                !.pending = @ + (IF sup.call_id THEN 1 ELSE 0)],
                    "tool_end", IF ok THEN "success" ELSE "error")
    /\ SupFrame

\* lines 633-654: the stream is exhausted.  Without pending function calls
\* the loop is left (636-643); otherwise their outputs are the next input.
SupRoundEnd ==
    /\ sup.pc = "events"
    /\ sup' = IF sup.pending = 0
              THEN [sup EXCEPT !.pc = "complete", !.left = 0]
              ELSE [sup EXCEPT !.pc = "while", !.left = 0]
    /\ SupFrame

\* lines 656-664: yield SupervisorChunk(type="complete", ...)
SupComplete ==
    /\ sup.pc = "complete"
    /\ sup' = Yield([sup EXCEPT !.pc = "done", !.completes = @ + 1],
                    "complete", "")
    /\ SupFrame

\* lines 666-670: except Exception: yield the "Supervisor error" chunk
SupExcept ==
    /\ sup.pc = "except"
    /\ sup' = Yield([sup EXCEPT !.pc = "done", !.raised = @ + 1],
                    "error", "Supervisor error")
    /\ SupFrame

SupNext ==
    \/ SupBuild
    \/ \E created \in BOOLEAN : SupWhile(created)
    \/ \E e \in StreamItems : SupEvent(e)
    \/ \E valid, executable, call_id \in BOOLEAN :
            SupArgsDone(valid, executable, call_id)
    \/ \E ok \in BOOLEAN : SupExecute(ok)
    \/ SupRoundEnd
    \/ SupComplete
    \/ SupExcept

\* The consumer keeps iterating the generator, every response stream ends
\* and every tool call returns or raises.
SupSpec == SupInit /\ [][SupNext]_vars /\ WF_vars(SupNext)

\* ====================================================== ElevenLabsTTS (TtsSpec)
\* ElevenLabsTTS and its AudioPlayer, lines 393-587, with their callers: the
\* tasks of the scheduler thread (event_loop, user_input_loop and the sentence
\* tasks made by add_text), the keyboard thread's on_ptt_press, and the
\* playback callback.  The text is kept only as empty or not (TextSpec models
\* it in full).  A step is one access to state that another thread reads or
\* writes.

\* The bounds of a run of TtsSpec.
MaxDeltas   == 2      \* add_text calls
MaxFlushes  == 1      \* flush calls
MaxStops    == 1      \* /stop commands
MaxTtsKeys  == 1      \* presses of the push-to-talk key
MaxAudio    == 1      \* audio chunks the backend streams for one text
MaxBuffered == 2      \* audio chunks AudioPlayer._buf holds

HANGOVER_TICKS == 5   \* line 439: hangover_s = 0.25, in ticks of 0.05 s

Tasks == 1 .. MaxDeltas
DoneStates == {"done", "cancelled", "failed"}

\* No _speak_async call is in progress.
NoRun == [on |-> FALSE, who |-> 0, left |-> 0]

\* AudioPlayer.__init__ and ElevenLabsTTS.__init__, lines 398-412 and 468-478;
\* cfg is PTT_INTERRUPTS_SPEECH (line 1773).
Tts0(cfg) ==
    [ptt_interrupts |-> cfg,
     text_buffer |-> "",           \* "" or "frag": an unfinished sentence
     is_speaking |-> FALSE,
     speaking_tasks |-> {},        \* the tasks in the list _speaking_tasks
     task |-> [t \in Tasks |-> "none"],
     must_cancel |-> {},           \* tasks whose cancel() was called
     buf |-> 0,                    \* chunks in AudioPlayer._buf
     since |-> HANGOVER_TICKS,     \* ticks since _last_write_ts
     pc |-> [evt |-> "recv", inp |-> "read", kbd |-> "idle"],
     sched |-> "none",             \* what holds the scheduler thread
     run |-> NoRun,                \* the _speak_async call in progress
     gather |-> {},                \* the tasks flush() awaits at line 564
     fl |-> [frag |-> FALSE, handed |-> FALSE, want |-> {}],
     spk |-> FALSE,                \* on_ptt_press's local is_speaking
     plog |-> <<>>,                \* the calls the latest press made
     err |-> "none",               \* how the latest backend error ended
     n |-> [delta |-> 0, flush |-> 0, stop |-> 0, key |-> 0]]

TtsInit ==
    /\ CoreInit(TRUE, Spent0)
    /\ \E cfg \in BOOLEAN : tts = Tts0(cfg)
    /\ txt = "unused" /\ kl = "unused" /\ MoreUnused

\* A player that never falls silent.
AlwaysPlaying(t) == TRUE

\* AudioPlayer.is_playing, lines 439-445.
IsPlaying(t) == t.buf > 0 \/ t.since < HANGOVER_TICKS

\* A task of the scheduler thread may be resumed; the caller p of interrupt()
\* is running.
TtsIdle == tts.sched = "none"
TtsCall(p) == p = "kbd" \/ tts.sched = p

NotDone(t) == {k \in t.speaking_tasks : t.task[k] \notin DoneStates}

\* add_text, lines 480-508 (all under the lock), called by event_loop at line
\* 1469.  The delta ends inside a sentence ("frag"), ends a sentence ("sent")
\* or ends one and begins another ("both"); a complete sentence makes a task.
AddText(kind) ==
    /\ TtsIdle /\ tts.pc.evt = "recv"
    /\ tts.n.delta < MaxDeltas
    /\ LET new == tts.n.delta + 1 IN
       tts' = [tts EXCEPT
                 !.n.delta = new,
                 !.text_buffer = IF kind = "sent" THEN "" ELSE "frag",
                 !.task = IF kind = "frag" THEN @ ELSE [@ EXCEPT ![new] = "pending"],
                 !.speaking_tasks = IF kind = "frag" THEN @ ELSE @ \cup {new},
                 !.err = "none"]
    /\ UNCHANGED <<coreVars, txt, kl, moreVars>>

\* The end of a _speak_async call: the inline call of flush() goes on at line
\* 558; a task is over, cancelled if cancel() was called while it ran.
SpeakEnd(t, how) ==
    IF t.run.who = 0
    THEN [t EXCEPT !.run = NoRun,
                   !.pc.evt = IF how = "failed" THEN "crashed" ELSE "fl_tasks"]
    ELSE [t EXCEPT !.run = NoRun, !.sched = "none",
                   !.task[t.run.who] =
                       IF how = "failed" THEN "failed"
                       ELSE IF t.run.who \in t.must_cancel THEN "cancelled"
                       ELSE "done",
                   !.must_cancel = @ \ {t.run.who}]

\* The loop runs a sentence task, lines 510-520: a task whose cancel() was
\* called before its first step never runs its body; otherwise
\* self.is_speaking = True and the call of the backend begins.
TaskStart(k) ==
    /\ TtsIdle /\ tts.task[k] = "pending"
    /\ tts' = IF k \in tts.must_cancel
              THEN [tts EXCEPT !.task[k] = "cancelled", !.must_cancel = @ \ {k},
                               !.err = "none"]
              ELSE [tts EXCEPT !.task[k] = "running", !.sched = "task",
                               !.is_speaking = TRUE,
                               !.run = [on |-> TRUE, who |-> k, left |-> MaxAudio],
                               !.err = "none"]
    /\ UNCHANGED <<coreVars, txt, kl, moreVars>>

\* lines 523-538 and AudioPlayer.write, 430-437: a chunk of the audio stream
\* is appended to the buffer.
SpeakWrite ==
    /\ tts.run.on /\ tts.run.left > 0
    /\ tts' = [tts EXCEPT !.run.left = @ - 1,
                          !.buf = Min(@ + 1, MaxBuffered),
                          !.since = 0,
                          !.err = "none"]
    /\ UNCHANGED <<coreVars, txt, kl, moreVars>>

\* An except clause that lets the backend's error through.
Uncaught(e) == FALSE

\* line 540: except Exception catches what the backend raises.
Caught(e) == e = "Exception"

\* lines 523-545: the backend call or the iteration of its stream raises; the
\* error is printed (540-543) and finally: self.is_speaking = False
SpeakRaise ==
    /\ tts.run.on
    /\ LET how == IF Caught("Exception") THEN "caught" ELSE "failed" IN
       tts' = [SpeakEnd(tts, how) EXCEPT !.is_speaking = FALSE, !.err = how]
    /\ UNCHANGED <<coreVars, txt, kl, moreVars>>

\* lines 536-545: the stream is over; finally: self.is_speaking = False
SpeakFin ==
    /\ tts.run.on /\ tts.run.left = 0
    /\ tts' = [SpeakEnd(tts, "ok") EXCEPT !.is_speaking = FALSE, !.err = "none"]
    /\ UNCHANGED <<coreVars, txt, kl, moreVars>>

\* flush(), lines 550-555, called by event_loop at lines 1403 and 1475: under
\* the lock, remaining = self.text_buffer.strip(); self.text_buffer = "".
FlushTake ==
    /\ TtsIdle /\ tts.pc.evt = "recv"
    /\ tts.n.flush < MaxFlushes
    /\ tts' = [tts EXCEPT
                 !.n.flush = @ + 1,
                 !.sched = "evt",
                 !.text_buffer = "",
                 !.pc.evt = IF tts.text_buffer # "" THEN "fl_speak" ELSE "fl_tasks",
                 !.fl = [frag |-> tts.text_buffer # "", handed |-> FALSE,
                         want |-> {k \in Tasks : tts.task[k] = "pending"}],
                 !.err = "none"]
    /\ UNCHANGED <<coreVars, txt, kl, moreVars>>

\* line 555: await self._speak_async(remaining), up to line 520.
FlushSpeak ==
    /\ tts.sched = "evt" /\ tts.pc.evt = "fl_speak"
    /\ tts' = [tts EXCEPT !.pc.evt = "fl_in_speak",
                          !.fl.handed = TRUE,
                          !.is_speaking = TRUE,
                          !.run = [on |-> TRUE, who |-> 0, left |-> MaxAudio],
                          !.err = "none"]
    /\ UNCHANGED <<coreVars, txt, kl, moreVars>>

\* lines 558-564: the tasks of the list that are done are dropped from it and
\* the others are awaited.
FlushTasks ==
    /\ tts.sched = "evt" /\ tts.pc.evt = "fl_tasks"
    /\ tts' = IF NotDone(tts) # {}
              THEN [tts EXCEPT !.speaking_tasks = NotDone(tts),
                               !.gather = NotDone(tts),
                               !.pc.evt = "fl_gather", !.sched = "none",
                               !.err = "none"]
              ELSE [tts EXCEPT !.speaking_tasks = NotDone(tts),
                               !.pc.evt = "fl_play", !.err = "none"]
    /\ UNCHANGED <<coreVars, txt, kl, moreVars>>

\* lines 564-565: gather returns once every awaited task is done;
\* self._speaking_tasks.clear()
FlushGathered ==
    /\ TtsIdle /\ tts.pc.evt = "fl_gather"
    /\ \A k \in tts.gather : tts.task[k] \in DoneStates
    /\ tts' = [tts EXCEPT !.speaking_tasks = {}, !.gather = {},
                          !.pc.evt = "fl_play", !.sched = "evt", !.err = "none"]
    /\ UNCHANGED <<coreVars, txt, kl, moreVars>>

\* lines 568-569: the test of the loop; await asyncio.sleep(0.1) or return.
FlushPlaying ==
    /\ tts.sched = "evt" /\ tts.pc.evt = "fl_play"
    /\ tts' = IF IsPlaying(tts)
              THEN [tts EXCEPT !.pc.evt = "fl_sleep", !.sched = "none", !.err = "none"]
              ELSE [tts EXCEPT !.pc.evt = "fl_ret", !.err = "none"]
    /\ UNCHANGED <<coreVars, txt, kl, moreVars>>

\* line 569: the sleep is over.
FlushWake ==
    /\ TtsIdle /\ tts.pc.evt = "fl_sleep"
    /\ tts' = [tts EXCEPT !.pc.evt = "fl_play", !.sched = "evt", !.err = "none"]
    /\ UNCHANGED <<coreVars, txt, kl, moreVars>>

\* flush() has returned: event_loop goes on (lines 1406, 1477) to its next
\* event.
FlushReturn ==
    /\ tts.sched = "evt" /\ tts.pc.evt = "fl_ret"
    /\ tts' = [tts EXCEPT !.pc.evt = "recv", !.sched = "none", !.err = "none"]
    /\ UNCHANGED <<coreVars, txt, kl, moreVars>>

\* interrupt(), lines 574-575: under the lock, self.text_buffer = ""
IntBuf(p) ==
    /\ TtsCall(p) /\ tts.pc[p] = "int_buf"
    /\ tts' = [tts EXCEPT !.text_buffer = "", !.pc[p] = "int_cancel",
                          !.plog = IF p = "kbd" THEN Append(@, "interrupt") ELSE @,
                          !.err = "none"]
    /\ UNCHANGED <<coreVars, txt, kl, moreVars>>

\* lines 578-580: cancel() is called on every task of the list that is not done
IntCancel(p) ==
    /\ TtsCall(p) /\ tts.pc[p] = "int_cancel"
    /\ tts' = [tts EXCEPT !.must_cancel = @ \cup NotDone(tts),
                          !.pc[p] = "int_clear", !.err = "none"]
    /\ UNCHANGED <<coreVars, txt, kl, moreVars>>

\* line 581: self._speaking_tasks.clear()
IntClear(p) ==
    /\ TtsCall(p) /\ tts.pc[p] = "int_clear"
    /\ tts' = [tts EXCEPT !.speaking_tasks = {}, !.pc[p] = "int_player",
                          !.err = "none"]
    /\ UNCHANGED <<coreVars, txt, kl, moreVars>>

\* line 584 and AudioPlayer.clear, 425-428: self.player.clear()
IntPlayer(p) ==
    /\ TtsCall(p) /\ tts.pc[p] = "int_player"
    /\ tts' = [tts EXCEPT !.buf = 0, !.pc[p] = "int_spk", !.err = "none"]
    /\ UNCHANGED <<coreVars, txt, kl, moreVars>>

\* lines 586-587: self.is_speaking = False; interrupt() returns
IntSpk(p) ==
    /\ TtsCall(p) /\ tts.pc[p] = "int_spk"
    /\ tts' = [tts EXCEPT !.is_speaking = FALSE, !.pc[p] = "int_done",
                          !.err = "none"]
    /\ UNCHANGED <<coreVars, txt, kl, moreVars>>

\* lines 1070-1073: /stop; tts.interrupt()
InStop ==
    /\ TtsIdle /\ tts.pc.inp = "read"
    /\ tts.n.stop < MaxStops
    /\ tts' = [tts EXCEPT !.n.stop = @ + 1, !.sched = "inp",
                          !.pc.inp = "int_buf", !.err = "none"]
    /\ UNCHANGED <<coreVars, txt, kl, moreVars>>

\* line 1074: await session.interrupt()
InStopSession ==
    /\ tts.sched = "inp" /\ tts.pc.inp = "int_done"
    /\ tts' = [tts EXCEPT !.pc.inp = "read", !.sched = "none", !.err = "none"]
    /\ UNCHANGED <<coreVars, txt, kl, moreVars>>

\* A press that interrupts whatever the setting is.
AlwaysInterrupts(cfg) == TRUE

\* line 932: if listen_state.ptt_interrupts
PttInterrupts(cfg) == cfg

\* on_ptt_press in push-to-talk mode, lines 920-934, on the keyboard thread: up
\* to the read of tts.is_speaking.
PressChk ==
    /\ tts.pc.kbd = "idle"
    /\ tts.n.key < MaxTtsKeys
    /\ tts' = [tts EXCEPT
                 !.n.key = @ + 1,
                 !.plog = <<>>,
                 !.spk = PttInterrupts(tts.ptt_interrupts) /\ tts.is_speaking,
                 !.pc.kbd = IF ~PttInterrupts(tts.ptt_interrupts) THEN "kp_start"
                            ELSE IF tts.is_speaking THEN "int_buf"
                            ELSE "kp_play",
                 !.err = "none"]
    /\ UNCHANGED <<coreVars, txt, kl, moreVars>>

\* lines 934-938: tts.is_speaking was False; player.is_playing() decides.
PressPlaying ==
    /\ tts.pc.kbd = "kp_play"
    /\ tts' = [tts EXCEPT !.spk = IsPlaying(tts),
                          !.pc.kbd = IF IsPlaying(tts) THEN "int_buf" ELSE "kp_start",
                          !.err = "none"]
    /\ UNCHANGED <<coreVars, txt, kl, moreVars>>

\* lines 942-944: loop.call_soon_threadsafe(... session.interrupt() ...)
PressSession ==
    /\ tts.pc.kbd = "int_done"
    /\ tts' = [tts EXCEPT !.plog = Append(@, "session_interrupt"),
                          !.pc.kbd = "kp_start", !.err = "none"]
    /\ UNCHANGED <<coreVars, txt, kl, moreVars>>

\* line 947: mic.start()
PressStart ==
    /\ tts.pc.kbd = "kp_start"
    /\ tts' = [tts EXCEPT !.plog = Append(@, "start"), !.pc.kbd = "idle",
                          !.err = "none"]
    /\ UNCHANGED <<coreVars, txt, kl, moreVars>>

\* AudioPlayer._callback, lines 447-461: the sound device takes a chunk.
PlayCallback ==
    /\ tts.buf > 0
    /\ tts' = [tts EXCEPT !.buf = @ - 1, !.err = "none"]
    /\ UNCHANGED <<coreVars, txt, kl, moreVars>>

\* time.monotonic() advances by a tick.
Tick ==
    /\ tts.since < HANGOVER_TICKS
    /\ tts' = [tts EXCEPT !.since = @ + 1, !.err = "none"]
    /\ UNCHANGED <<coreVars, txt, kl, moreVars>>

TtsNext ==
    \/ \E kind \in {"frag", "sent", "both"} : AddText(kind)
    \/ \E k \in Tasks : TaskStart(k)
    \/ SpeakWrite
    \/ SpeakRaise
    \/ SpeakFin
    \/ FlushTake
    \/ FlushSpeak
    \/ FlushTasks
    \/ FlushGathered
    \/ FlushPlaying
    \/ FlushWake
    \/ FlushReturn
    \/ \E p \in {"kbd", "inp"} : IntBuf(p)
    \/ \E p \in {"kbd", "inp"} : IntCancel(p)
    \/ \E p \in {"kbd", "inp"} : IntClear(p)
    \/ \E p \in {"kbd", "inp"} : IntPlayer(p)
    \/ \E p \in {"kbd", "inp"} : IntSpk(p)
    \/ InStop
    \/ InStopSession
    \/ PressChk
    \/ PressPlaying
    \/ PressSession
    \/ PressStart
    \/ PlayCallback
    \/ Tick

TtsSpec == TtsInit /\ [][TtsNext]_vars

\* A step of a _speak_async call in progress, lines 510-545.
SpeakStep == SpeakWrite \/ SpeakRaise \/ SpeakFin

\* A step of flush() after its call, lines 554-569.
FlushStep ==
    \/ FlushSpeak \/ FlushTasks \/ FlushGathered \/ FlushPlaying
    \/ FlushWake \/ FlushReturn

\* A step of interrupt() and of the handler that called it.
IntStep ==
    \/ \E p \in {"kbd", "inp"} :
          IntBuf(p) \/ IntCancel(p) \/ IntClear(p) \/ IntPlayer(p) \/ IntSpk(p)
    \/ InStopSession \/ PressPlaying \/ PressSession \/ PressStart

\* The runs in which synthesis calls return, the playback callback and the
\* clock keep ticking, the asyncio loop runs the tasks that are ready and a
\* handler that has begun runs to its end.  The arrival of text, of /stop
\* and of key presses is not forced.
TtsFairSpec ==
    TtsInit /\ [][TtsNext]_vars
        /\ WF_vars(SpeakStep) /\ WF_vars(FlushStep) /\ WF_vars(IntStep)
        /\ WF_vars(\E k \in Tasks : TaskStart(k))
        /\ WF_vars(PlayCallback) /\ WF_vars(Tick)

\* ================================================ add_text's text (TextSpec)
\* ElevenLabsTTS.add_text, lines 480-508, on the text itself: a text is a
\* sequence of characters, and the calls are made one after the other by
\* event_loop (line 1469), each with a non-empty delta.

\* The bounds of a run of TextSpec.
MaxTextDeltas == 3    \* add_text calls
MaxDeltaLen   == 3    \* characters in a delta

\* The characters of the deltas: a letter, a blank, a full stop, a newline.
Chars == {"a", " ", ".", "\n"}
Deltas == UNION {[1 .. n -> Chars] : n \in 1 .. MaxDeltaLen}

\* line 488: the class [.!?\n] of the sentence ends.
Terminators == {".", "!", "?", "\n"}

\* The characters str.strip() removes (lines 505, 507).
Whitespace == {" ", "\n"}

\* line 488: re.split(r'([.!?\n])', s): the texts between the sentence ends,
\* with the ends themselves in between, from the i-th character on; cur is the
\* text collected since the last end.
RECURSIVE SplitFrom(_, _, _)
SplitFrom(s, i, cur) ==
    IF i > Len(s) THEN <<cur>>
    ELSE IF s[i] \in Terminators
         THEN <<cur, <<s[i]>>>> \o SplitFrom(s, i + 1, <<>>)
         ELSE SplitFrom(s, i + 1, Append(cur, s[i]))

\* lines 491-497: complete += sentences[i] + sentences[i + 1], for the pairs
\* from the j-th pair on.
RECURSIVE Complete(_, _)
Complete(sentences, j) ==
    IF 2 * j > Len(sentences) - 1 THEN <<>>
    ELSE sentences[2 * j - 1] \o sentences[2 * j] \o Complete(sentences, j + 1)

\* A buffer that forgets the unfinished sentence.
NoRemaining(sentences) == <<>>

\* lines 492-503: remaining = sentences[-1], the length of the list being odd.
Remaining(sentences) ==
    IF Len(sentences) % 2 = 1 THEN sentences[Len(sentences)] ELSE <<>>

\* str.strip(), lines 505 and 507.
RECURSIVE Strip(_)
Strip(s) ==
    IF s = <<>> THEN s
    ELSE IF Head(s) \in Whitespace THEN Strip(Tail(s))
    ELSE IF s[Len(s)] \in Whitespace THEN Strip(SubSeq(s, 1, Len(s) - 1))
    ELSE s

\* A task for the first sentence only.
FirstOnly(sentences) ==
    Strip(Complete(SubSeq(sentences, 1, Min(2, Len(sentences))), 1))

\* lines 505-507: the text of the task that the call starts, if it is not
\* empty.
TaskText(sentences) == Strip(Complete(sentences, 1))

\* ElevenLabsTTS.__init__, lines 475-478: no text yet.
TextInit ==
    /\ CoreInit(TRUE, Spent0)
    /\ tts = "unused" /\ kl = "unused" /\ MoreUnused
    /\ txt = [text_buffer |-> <<>>,
              spoken |-> <<>>,      \* the texts of the tasks, in order
              fed |-> <<>>,         \* the deltas so far, concatenated
              ends |-> <<>>,        \* where in fed each delta ends
              last |-> [input |-> <<>>, started |-> 0]]

\* add_text(delta), lines 480-508.
AddTextDelta(delta) ==
    /\ Len(txt.ends) < MaxTextDeltas
    /\ LET input == txt.text_buffer \o delta
           sentences == SplitFrom(input, 1, <<>>)
           text == TaskText(sentences)
       IN txt' = [text_buffer |-> Remaining(sentences),
                  spoken |-> IF text # <<>> THEN Append(txt.spoken, text)
                             ELSE txt.spoken,
                  fed |-> txt.fed \o delta,
                  ends |-> Append(txt.ends, Len(txt.fed) + Len(delta)),
                  last |-> [input |-> input,
                            started |-> IF text # <<>> THEN 1 ELSE 0]]
    /\ UNCHANGED <<coreVars, tts, kl, moreVars>>

TextNext == \E delta \in Deltas : AddTextDelta(delta)

TextSpec == TextInit /\ [][TextNext]_vars

\* ================================================ KeyboardListener (KeySpec)
\* KeyboardListener, lines 665-805, on its own: the key events that pynput
\* delivers to _on_press and _on_release, in any order, and the callbacks
\* they fire.  A key is named as in PTT_KEY.

\* The keys of the events.
Keys == {"cmd", "alt", "shift", "space"}

\* The values of PTT_KEY, split at "_": sets of modifier names and single
\* keys (lines 390, 680, 1772).
PttKeys == {<<"cmd", "alt">>, <<"alt", "shift">>, <<"space">>, <<"shift">>}

\* lines 694-699 and 772: the modifier keys.
Modifiers == {"cmd", "ctrl", "shift", "alt"}

\* _parse_combination, lines 686-706: the parts that name a modifier.
ParseCombination(parts) == {parts[i] : i \in DOMAIN parts} \cap Modifiers

\* KeyboardListener.__init__, lines 668-684, for the parts of PTT_KEY.
Kl0(parts) ==
    [is_combination |-> Len(parts) > 1,
     required_modifiers |-> ParseCombination(parts),
     target_key |-> parts[1],
     modifiers_held |-> {},
     is_pressed |-> FALSE,
     down |-> {},          \* the keys that are down
     was |-> FALSE,        \* fully held before the latest event
     fired |-> "none",     \* the callback the latest event fired
     prev |-> "none"]      \* the callback fired before that one

KeyInit ==
    /\ CoreInit(TRUE, Spent0)
    /\ tts = "unused" /\ txt = "unused" /\ MoreUnused
    /\ \E parts \in PttKeys : kl = Kl0(parts)

\* _check_combination_active and _matches_target, lines 749-765, for
\* _on_press and _on_release, lines 776-777, 782, 796-797, 802.
Active(k, held, key) ==
    IF k.is_combination THEN k.required_modifiers \subseteq held
    ELSE key = k.target_key

\* Whether the configured key or combination is held, by the keys down.
FullyHeld(k, down) ==
    IF k.is_combination THEN k.required_modifiers \subseteq down
    ELSE k.target_key \in down

\* A listener that fires whatever is_pressed is.
AnyEdge(pressed) == TRUE

\* lines 777, 782: and not self.is_pressed
NotPressed(pressed) == ~pressed

\* The callback of the latest event, and the one before it.
Fires(k, f) ==
    [k EXCEPT !.fired = f, !.prev = IF k.fired # "none" THEN k.fired ELSE k.prev]

\* _on_press(key), lines 767-785.
OnPress(key) ==
    /\ LET held == IF key \in Modifiers THEN kl.modifiers_held \cup {key}
                   ELSE kl.modifiers_held
           fire == Active(kl, held, key) /\ NotPressed(kl.is_pressed)
       IN kl' = [Fires(kl, IF fire THEN "press" ELSE "none") EXCEPT
                   !.modifiers_held = held,
                   !.is_pressed = IF fire THEN TRUE ELSE @,
                   !.down = @ \cup {key},
                   !.was = FullyHeld(kl, kl.down)]
    /\ UNCHANGED <<coreVars, tts, txt, moreVars>>

\* _on_release(key), lines 787-805.
OnRelease(key) ==
    /\ LET held == IF key \in Modifiers THEN kl.modifiers_held \ {key}
                   ELSE kl.modifiers_held
           fire == /\ IF kl.is_combination THEN ~Active(kl, held, key)
                      ELSE Active(kl, held, key)
                   /\ kl.is_pressed
       IN kl' = [Fires(kl, IF fire THEN "release" ELSE "none") EXCEPT
                   !.modifiers_held = held,
                   !.is_pressed = IF fire THEN FALSE ELSE @,
                   !.down = @ \ {key},
                   !.was = FullyHeld(kl, kl.down)]
    /\ UNCHANGED <<coreVars, tts, txt, moreVars>>

KeyNext ==
    \/ \E key \in Keys : OnPress(key)
    \/ \E key \in Keys : OnRelease(key)

KeySpec == KeyInit /\ [][KeyNext]_vars

\* Values of PTT_KEY with parts that name no modifier: _parse_combination
\* prints a warning for such a part and leaves it out (lines 701-704).
OddPttKeys == {<<"foo", "bar">>, <<"cmd", "foo">>, <<"space", "bar">>}

KeyAnyInit ==
    /\ CoreInit(TRUE, Spent0)
    /\ tts = "unused" /\ txt = "unused" /\ MoreUnused
    /\ \E parts \in PttKeys \cup OddPttKeys : kl = Kl0(parts)

KeyAnySpec == KeyAnyInit /\ [][KeyNext]_vars

\* ================================================================ claims
\* The handling of a sentinel has just ended.
Ended == h.outcome \notin {"none", "handling"}

\* A step of mic_send_loop dequeues a sentinel.
SentinelDequeued ==
    /\ pc.mic = "get" /\ queue # <<>> /\ Head(queue).k = "sentinel"
    /\ queue' = Tail(queue)

ChunkIdx == {i \in DOMAIN queue : queue[i].k = "chunk"}
SentinelIdx == {i \in DOMAIN queue : queue[i].k = "sentinel"}

\* A callback that has passed the running gate for turn t is in progress.
InFlight(t) == pc.aud = "gate" /\ cb.turn = t

\* C1 as stated: a sentinel dequeued with fewer than MIN_AUDIO_BYTES bytes
\* appended, in every turn_state and in both modes, leaves turn_state "idle"
\* and makes no send_audio(commit=True).
C1_LowSentinelAlwaysIdle ==
    (Ended /\ h.lowStart) => (h.tsEnd = "idle" /\ h.commitSends = 0)

\* C1 amended: a sentinel dequeued with fewer than MIN_AUDIO_BYTES bytes
\* appended while turn_state is not "committed", in both modes, leaves
\* turn_state "idle" and makes no send_audio(commit=True); one dequeued while
\* turn_state is "committed" leaves it "committed".
C1_LowSentinelDropped ==
    /\ (Ended /\ h.lowStart /\ h.tsStart # "committed")
         => (h.tsEnd = "idle" /\ h.commitSends = 0)
    /\ (Ended /\ h.lowStart /\ h.tsStart = "committed")
         => (h.tsEnd = "committed" /\ h.commitSends = 0)

C1_Witness == h.outcome = "dropped" /\ h.lowStart /\ h.tsEnd = "idle"

\* C2: a sentinel dequeued while turn_state is "committed" causes no
\* send_audio call of any kind, leaves turn_state, the byte count and the
\* listen mode as they are, and mic_send_loop goes back to the queue.
C2_CommittedSentinelIgnored ==
    [][(SentinelDequeued /\ turn_state = "committed")
         => /\ sent' = NoSend
            /\ turn_state' = turn_state /\ bytes' = bytes
            /\ ptt_mode' = ptt_mode /\ enabled' = enabled
            /\ pc'.mic = "get" /\ h'.outcome = "ignored"]_vars

C2_Witness == h.outcome = "ignored" /\ h.tsStart = "committed"

NamedEdges ==
    { <<"idle", "awaiting_speech_end">>, <<"idle", "committed">>,
      <<"awaiting_speech_end", "committed">>, <<"committed", "idle">> }

C5_OnlySchedulerWrites ==
    [][(pc'.kbd # pc.kbd \/ pc'.aud # pc.aud) => turn_state' = turn_state]_vars

\* C6: a callback invoked while _running is False, or while the mute predicate
\* answers True, enqueues no chunk: every chunk that reaches the queue comes
\* from a callback that saw _running True and the mute predicate False, and a
\* callback that ended at a gate has left the queue as it was.
C6_GatedChunks ==
    /\ \A i \in ChunkIdx : queue[i].gate
    /\ item.k = "chunk" => item.gate
    /\ out.cb \in {"notrunning", "muted"} => pc.aud = "idle"

\* A callback was invoked between stop()'s lines 636 and 638 and dropped the
\* block.
C6_Witness == out.cb = "notrunning" /\ ~running /\ streamActive

\* C7: chunks leave the queue in capture order, and the sentinel of
\* stop(commit=True) is behind every chunk of its turn: no chunk of that turn
\* is queued after it or is still to be put by a callback in progress, before
\* and after the sentinel is dequeued.
C7_FifoSentinelLast ==
    /\ \A i, j \in ChunkIdx : i < j => queue[i].seq < queue[j].seq
    /\ item.k = "chunk" => \A i \in ChunkIdx : item.seq < queue[i].seq
    /\ \A i \in SentinelIdx :
          /\ \A j \in ChunkIdx : j > i => queue[j].turn # queue[i].turn
          /\ ~InFlight(queue[i].turn)
    /\ obs.lastTurn > 0 =>
          /\ \A j \in ChunkIdx : queue[j].turn # obs.lastTurn
          /\ ~InFlight(obs.lastTurn)

\* stop(commit=True) on the keyboard thread waits at line 638 for a callback of
\* its turn that is in progress.
C7_Witness ==
    /\ pc.kbd = "stop_stream" /\ InFlight(obs.stopTurn)

\* C8: every key release in push-to-talk mode that has called
\* stop(commit=True) has enqueued the end-of-turn sentinel, whatever events
\* were handled while the key was held.
C8_ReleaseEnqueuesSentinel ==
    out.rel \in {"sent", "norun", "nosentinel"} => out.rel = "sent"

\* C9: in continuous mode a sentinel dequeued while turn_state is not
\* "committed" and at least MIN_AUDIO_BYTES bytes are appended makes exactly
\* one send_audio(commit=True) of the silence pad, changes turn_state to
\* "committed" without "awaiting_speech_end", and resets the byte count to 0.
C9_ContinuousCommit ==
    (Ended /\ ~h.pttStart /\ h.tsStart # "committed" /\ ~h.lowStart)
        => /\ h.commitSends = 1
           /\ h.pad = SILENCE_PAD_BYTES
           /\ h.toCommitted = 1
           /\ ~h.sawAwait
           /\ h.bytesEnd = 0

\* C10: while it handles a sentinel in push-to-talk mode, mic_send_loop sends
\* only silence frames with commit=False, each started while turn_state is
\* "awaiting_speech_end", and never sends with commit=True.
C10_SilenceOnlyWhileAwaiting ==
    h.mode = "ptt" => (~h.silBad /\ h.commitSends = 0)
\* C11: whenever turn_state is "awaiting_speech_end", later turn_state is no
\* longer "awaiting_speech_end" and mic_send_loop is back at its await of
\* mic.queue.get(), unless /quit has ended the session; no server event is
\* needed for it.
C11_AwaitingIsLeft ==
    (turn_state = "awaiting_speech_end")
        ~> ((turn_state # "awaiting_speech_end" /\ pc.mic = "get") \/ ~Live)

\* The wait has been left by its timeout, with no server event during it.
C11_Witness ==
    /\ h.outcome = "timeout" /\ h.timedOut /\ ~h.speechEvt
    /\ h.tsEnd = "committed" /\ pc.mic = "get"

\* C12: the step of event_loop that handles input_audio_buffer.committed or
\* input_audio_buffer.speech_stopped while turn_state is not
\* "awaiting_speech_end" changes none of turn_state,
\* bytes_appended_since_commit and speech_ended_event, and ends the handling:
\* event_loop is back at its wait for the next event.
C12_StaleEventIgnored ==
    [][((EvCommitted \/ EvSpeechStopped) /\ turn_state # "awaiting_speech_end")
          => (/\ UNCHANGED <<turn_state, bytes, speech_ended>>
              /\ pc'.evt = "recv")]_vars

\* input_audio_buffer.committed has just been handled in push-to-talk mode
\* with the turn already "committed".
C12_Witness ==
    /\ out.ev = "committed" /\ pc.evt = "recv"
    /\ ptt_mode /\ turn_state = "committed" /\ bytes = 0

\* C13: when a call of interrupt() has returned, from the keyboard thread or
\* from a task of the scheduler thread, text_buffer is empty, the list of
\* sentence tasks is empty and the AudioPlayer buffer is empty.
C13_InterruptLeavesEmpty ==
    \A p \in {"kbd", "inp"} :
        tts.pc[p] = "int_done"
            => tts.text_buffer = "" /\ tts.speaking_tasks = {} /\ tts.buf = 0

\* C14: when flush() has returned, AudioPlayer.is_playing() is false, the
\* fragment that text_buffer held at the call was handed to _speak_async, and
\* every sentence task that was pending at the call is done, or cancelled, or
\* had its cancel() called.
C14_FlushReturnsSettled ==
    tts.pc.evt = "fl_ret"
        => /\ ~IsPlaying(tts)
           /\ tts.fl.frag => tts.fl.handed
           /\ \A k \in tts.fl.want :
                  tts.task[k] \in DoneStates \/ k \in tts.must_cancel

\* C17: the step in which the backend call of a text raises leaves text_buffer
\* as it was, sets is_speaking to False, ends the call normally (flush() goes
\* on at its line 558, a sentence task ends without an exception) and changes
\* neither the list of tasks nor any other task.
C17_BackendErrorSwallowed ==
    [][SpeakRaise =>
          /\ tts'.text_buffer = tts.text_buffer
          /\ ~tts'.is_speaking
          /\ tts'.err = "caught"
          /\ tts'.pc.evt # "crashed"
          /\ tts.run.who # 0 => tts'.task[tts.run.who] \in {"done", "cancelled"}
          /\ tts'.speaking_tasks = tts.speaking_tasks
          /\ \A k \in Tasks \ {tts.run.who} : tts'.task[k] = tts.task[k]]_vars

\* The backend call of a sentence has just failed while another sentence task
\* is pending and an unfinished sentence is in text_buffer.
C17_Witness ==
    /\ tts.err = "caught" /\ ~tts.is_speaking
    /\ tts.text_buffer = "frag"
    /\ \E k \in Tasks : tts.task[k] = "pending"

\* C18: when on_ptt_press has returned, the calls it made are interrupt(), the
\* scheduling of session.interrupt() and mic.start(), in this order, if
\* ptt_interrupts is set and its check found tts.is_speaking or
\* player.is_playing() true; otherwise mic.start() alone.
C18_PressInterruptsFirst ==
    tts.pc.kbd = "idle" /\ tts.plog # <<>>
        => tts.plog = IF tts.ptt_interrupts /\ tts.spk
                      THEN <<"interrupt", "session_interrupt", "start">>
                      ELSE <<"start">>

\* A press has interrupted the speech and then started the capture.
C18_Witness ==
    /\ tts.pc.kbd = "idle" /\ tts.ptt_interrupts /\ tts.spk
    /\ tts.plog = <<"interrupt", "session_interrupt", "start">>

\* The sentence ends in a text, and the place of the last of them (0: none).
TermIdx(s) == {i \in 1 .. Len(s) : s[i] \in Terminators}
LastTerm(s) ==
    IF TermIdx(s) = {} THEN 0
    ELSE CHOOSE i \in TermIdx(s) : \A j \in TermIdx(s) : j <= i

Cut(j) == IF j = 0 THEN 0 ELSE LastTerm(SubSeq(txt.fed, 1, txt.ends[j]))

\* The texts to synthesize after j deltas: what each delta completed, as one
\* stripped text, unless that is empty.
RECURSIVE Expected(_)
Expected(j) ==
    IF j = 0 THEN <<>>
    ELSE LET piece == Strip(SubSeq(txt.fed, Cut(j - 1) + 1, Cut(j)))
         IN IF piece = <<>> THEN Expected(j - 1)
            ELSE Append(Expected(j - 1), piece)

RECURSIVE Flat(_)
Flat(ss) == IF ss = <<>> THEN <<>> ELSE Head(ss) \o Flat(Tail(ss))

NoSpace(s) == SelectSeq(s, LAMBDA c : c \notin Whitespace)

\* C16: after any sequence of deltas, the synthesized texts are, in order, what
\* each call completed (the text from the previous last sentence end to the
\* new one, as one stripped text), text_buffer is what follows the last
\* sentence end, and the synthesized texts followed by text_buffer are the
\* concatenation of the deltas but for whitespace.
C16_NothingLostOrTwice ==
    LET n == Len(txt.ends) IN
    /\ txt.spoken = Expected(n)
    /\ txt.text_buffer = SubSeq(txt.fed, Cut(n) + 1, Len(txt.fed))
    /\ NoSpace(Flat(txt.spoken) \o txt.text_buffer) = NoSpace(txt.fed)

\* "a.a" then " a." were fed: two texts, the second one made of both deltas.
C16_Witness ==
    /\ txt.fed = <<"a", ".", "a", " ", "a", ".">>
    /\ txt.ends = <<3, 6>>
    /\ txt.spoken = << <<"a", ".">>, <<"a", " ", "a", ".">> >>
    /\ txt.text_buffer = <<>>

\* C19: an event fires the press callback exactly when it makes the configured
\* key or combination fully held (it was not before the event and is after
\* it), and the release callback exactly when it ends that; so a key-down
\* while fully held fires nothing, and the callbacks alternate, the first one
\* being a press.
C19_EdgeTriggered ==
    /\ kl.fired = "press" <=> (~kl.was /\ FullyHeld(kl, kl.down))
    /\ kl.fired = "release" <=> (kl.was /\ ~FullyHeld(kl, kl.down))
    /\ kl.fired = "press" => kl.prev \in {"none", "release"}
    /\ kl.fired = "release" => kl.prev = "press"
    /\ kl.is_pressed <=> FullyHeld(kl, kl.down)

\* The combination has just been completed for the second time.
C19_Witness ==
    /\ kl.is_combination /\ kl.fired = "press" /\ kl.prev = "release"
    /\ kl.required_modifiers = {"cmd", "alt"} /\ "shift" \in kl.down

\* C20: the step of user_input_loop that ends a switch of the listen mode
\* (/mic from push-to-talk, /ptt from continuous mode) and takes it back to
\* its wait for a command leaves turn_state "idle".
C20_SwitchResetsTurn ==
    [][(pc.inp # "read" /\ pc'.inp = "read") => turn_state' = "idle"]_vars

\* C21: in every reachable state, from startup through any sequence of /mic,
\* /ptt and /quit commands, ListenState.enabled and ListenState.ptt_mode are
\* not both true.
C21_OneModeActive == ~(enabled /\ ptt_mode)

\* Three commands were handled with no key press and no server event, and
\* capture was started twice: the mode was switched to continuous after it
\* had been push-to-talk, and the last switch is over.
C21_Witness ==
    /\ cnt.cmd = MaxCmds /\ pc.inp = "read"
    /\ cnt.press = MaxPresses - ModePresses
    /\ cnt.event = MaxEvents - ModeEvents
    /\ cnt.start >= 2
    /\ enabled /\ ~ptt_mode

\* C22: keepalive_loop hands a silence frame to the session only while capture
\* is not running, turn_state is "idle" and the push-to-talk key is not held,
\* and always with commit=False, also when a key press on the keyboard thread
\* interleaves with the tick.
C22_KeepaliveOnlyWhenIdle ==
    [][KaSend => /\ ~running /\ turn_state = "idle" /\ ~ptt_active
                 /\ ~sent'.commit]_vars

\* C23: once a check has seen no server event for longer than the warning
\* threshold, exactly one warning has been printed since a check last saw an
\* idle time below the threshold: the first such check prints it, and no
\* later check prints another until the latch is re-armed.
C23_OneWarningPerLatch ==
    /\ hm.since <= 1
    /\ hm.idle > IDLE_WARNING_THRESHOLD => hm.since = 1

\* A warning was printed, a fresh event re-armed the latch, and the second
\* long idle period has got its one warning too; the latest check printed
\* nothing.
C23_Witness ==
    /\ hm.last_server_event_time > IDLE_WARNING_THRESHOLD
    /\ hm.idle > IDLE_WARNING_THRESHOLD + 1
    /\ hm.since = 1 /\ hm.warned /\ hm.emitted = "none"

\* C24: in an idle period that lasts past both thresholds, the monitor has
\* printed the 10-minute warning and then, once a check sees more than 900 s,
\* the stronger warning.
C24_Escalates ==
    hm.idle > IDLE_ERROR_THRESHOLD => hm.log = <<"warning", "error">>

\* C25: when main() returns after it has opened an audio device stream, on
\* every exit path, every stream it opened has been stopped and closed.
C25_DevicesReleased ==
    mn.pc = "returned" =>
        /\ mn.player \in {"none", "closed"}
        /\ mn.mic \in {"none", "closed"}

\* C26: on every session shutdown capture is stopped first, then the
\* background tasks are cancelled, then the streams are released: no task is
\* cancelled while capture is still running.
C26_ShutdownOrder ==
    \A i \in DOMAIN mn.log : mn.log[i] # "cancelled_while_capturing"

\* C27: a playback callback asked for n bytes with buffer content b delivers
\* exactly n bytes, the first min(n, |b|) bytes of b followed by zero bytes,
\* and leaves in the buffer b without that prefix.
C27_CallbackFillsExactly ==
    pl.nbytes > 0 =>
        LET b == pl.before
            n == pl.nbytes
            m == Min(n, Len(b))
        IN /\ Len(pl.outdata) = n
           /\ \A i \in 1 .. n :
                 pl.outdata[i] = IF i <= m THEN b[i] ELSE 0
           /\ Len(pl.buf) = Len(b) - m
           /\ \A i \in 1 .. Len(pl.buf) : pl.buf[i] = b[m + i]

\* A callback found fewer bytes than it was asked for, a non-zero one among
\* them, and padded the block.
C27_Witness ==
    /\ pl.nbytes = 3 /\ Len(pl.before) = 2 /\ pl.before[2] = 1
    /\ pl.outdata = <<pl.before[1], 1, 0>>

\* The commands a line invokes: the first word of each of its segments, the
\* segments being separated by ";", "&&", "||" and "|".
Invoked(command) ==
    {command[i] : i \in {i \in DOMAIN command :
                            /\ command[i] \in Words
                            /\ i = 1 \/ command[i - 1] \in Separators}}

\* C28: a command line that invokes, in any of its segments, a command of
\* DANGEROUS_COMMANDS or one outside SAFE_COMMANDS is never assessed SAFE, and
\* so never approved without a prompt when approval is required.
C28_UnsafeNeverAutoApproved ==
    (\E c \in Invoked(risk.command) : c \notin SAFE_COMMANDS)
        => risk.level # "SAFE"

\* C29: with approval required, a call of write_file, edit_file,
\* create_directory or move_file runs only after the user approved it, and
\* otherwise leaves the file system as it was; read_file, list_directory and
\* get_file_info are approved with reason None and no prompt.
C29_ModifyingNeedsApproval ==
    fsp.require_approval =>
        /\ fsp.name \in {"write_file", "edit_file", "create_directory",
                          "move_file"}
             => IF fsp.prompted /\ fsp.answer = "y" THEN fsp.executed
                ELSE ~fsp.executed /\ fsp.fs = fsp.before
        /\ fsp.name \in {"read_file", "list_directory", "get_file_info"}
             => fsp.approved /\ fsp.reason = "None" /\ ~fsp.prompted

StopLabels == {"stop_chk", "stop_set", "stop_stream", "stop_put"}

\* C31: start() on a running streamer and stop() on a stopped one return at
\* once and change neither the running flag, the stream nor the queue; no
\* step of a stop(commit=False) (event loop, input loop) changes the queue;
\* a stop(commit=True) (key release) that finds the streamer running clears
\* the flag, stops the stream and then appends exactly one sentinel as its
\* only change of the queue.
C31_StartStopIdempotent ==
    [][\A p \in Callers :
        /\ pc[p] = "start_chk" /\ pc'[p] # "start_chk" /\ running =>
                pc'[p] = RetOf(p) /\ UNCHANGED micVars
        /\ pc[p] = "stop_chk" /\ pc'[p] # "stop_chk" /\ ~running =>
                pc'[p] = RetOf(p) /\ UNCHANGED micVars
        /\ pc[p] \in StopLabels /\ pc'[p] # pc[p] /\ ~StopCommit(p) =>
                queue' = queue /\ pc'[p] # "stop_put"
        /\ pc[p] = "stop_chk" /\ pc'[p] # "stop_chk" /\ running
                /\ StopCommit(p) =>
                pc'[p] = "stop_set" /\ UNCHANGED micVars
        /\ pc[p] = "stop_set" /\ pc'[p] # "stop_set" /\ StopCommit(p) =>
                pc'[p] = "stop_stream" /\ ~running' /\ queue' = queue
        /\ pc[p] = "stop_stream" /\ pc'[p] # "stop_stream" /\ StopCommit(p) =>
                pc'[p] = "stop_put" /\ ~streamActive' /\ queue' = queue
        /\ pc[p] = "stop_put" /\ pc'[p] # "stop_put" =>
                /\ StopCommit(p) /\ pc'[p] = RetOf(p)
                /\ Len(queue') = Len(queue) + 1
                /\ SubSeq(queue', 1, Len(queue)) = queue
                /\ queue'[Len(queue')].k = "sentinel"]_vars

\* A key release has stopped a running streamer and its stop(commit=True)
\* has returned after pushing the sentinel, which is still queued.
C31_Witness ==
    /\ out.rel = "sent" /\ cnt.start >= 1
    /\ SentinelIdx # {} /\ ~running

\* C32: while the mode is Continuous (ptt_mode is false) no step of the
\* keyboard thread's press or release handler changes the running flag, the
\* stream or the queue: a key event neither starts nor stops capture and
\* pushes no sentinel, also when the handler was entered before the switch.
C32_KeysInertInContinuous ==
    [][~ptt_mode /\ pc'.kbd # pc.kbd => UNCHANGED micVars]_vars

\* C33: process() ends in every run: it never counts more than max_rounds
\* rounds, also when every round leaves pending function calls; until it
\* has ended it has yielded neither "complete" nor the "Supervisor error"
\* chunk, and when it has ended it has yielded exactly one of the two, as
\* its last chunk.
C33_ProcessTerminates ==
    /\ [](/\ sup.current_round <= max_rounds
          /\ sup.pc # "done" => sup.completes + sup.raised = 0
          /\ sup.pc = "done" =>
                /\ sup.completes + sup.raised = 1
                /\ \/ sup.last = [type |-> "complete", content |-> ""]
                   \/ sup.last = [type |-> "error",
                                  content |-> "Supervisor error"])
    /\ <>(sup.pc = "done")

\* Ten rounds were run, the last one left pending function calls too, and
\* the generator has ended with "complete".
C33_Witness ==
    /\ sup.pc = "done" /\ sup.current_round = max_rounds
    /\ sup.pending > 0 /\ sup.last.type = "complete"

\* The labels of a call of interrupt() that has not returned yet.
IntLabels == {"int_buf", "int_cancel", "int_clear", "int_player", "int_spk"}

\* C34: once interrupt() has returned, the synthesis call of a sentence task
\* that the interrupt cancelled writes no audio to the AudioPlayer buffer.
C34_NoAudioAfterInterrupt ==
    [][(/\ tts.run.on /\ tts.run.who \in tts.must_cancel
        /\ tts.pc.kbd \notin IntLabels /\ tts.pc.inp \notin IntLabels)
            => ~SpeakWrite]_vars

\* C35: when flush() issues the synthesis call for the trailing fragment, no
\* sentence task that add_text created before is still waiting to issue its
\* own call (a task cancelled before its start never issues one).
C35_FragmentAfterSentences ==
    [][FlushSpeak =>
          \A k \in Tasks \ tts.must_cancel : tts.task[k] # "pending"]_vars

\* C36: when mic_send_loop has dequeued the sentinel of the turn the latest
\* push-to-talk press began, and no newer press is under way, the counter
\* bytes_appended_since_commit equals the total length of the chunks the
\* capture callback has queued since that press reset it.
C36_CounterMatchesCapture ==
    (/\ pc.mic = "chk_min" /\ item.k = "sentinel"
     /\ item.turn = cnt.start /\ ptt_mode /\ ~ptt_active)
        => bytes = obs.cap

\* C37: in every reachable state the key-held flag ptt_active is set only
\* while the mode is push-to-talk.
C37_ActiveOnlyInPtt == ptt_active => ptt_mode

\* The callback fired last.
LastCallback == IF kl.fired # "none" THEN kl.fired ELSE kl.prev

\* C38: for every value of PTT_KEY, whenever no key is down is_pressed is
\* false and the release callback has been invoked as often as the press
\* callback.  Each callback flips is_pressed, so the two alternate and their
\* counts are equal when the one fired last is not a press.
C38_AllUpMeansReleased ==
    kl.down = {} => ~kl.is_pressed /\ LastCallback \in {"none", "release"}

\* C40: every call of flush() returns: whenever event_loop is inside
\* flush(), it is later back at its wait for the next server event.
C40_FlushReturns == (tts.pc.evt # "recv") ~> (tts.pc.evt = "recv")

\* flush() has reached its return while interrupt() runs on the keyboard
\* thread, and a sentence task it was to await has been cancelled.
C40_Witness ==
    /\ tts.pc.evt = "fl_ret" /\ tts.pc.kbd \in IntLabels
    /\ \E k \in tts.fl.want : tts.task[k] = "cancelled"

\* C39: in Continuous mode, whenever the stop() that agent_start calls has
\* stopped the capture and event_loop later takes an agent_end, the capture
\* is running again at some later point, unless the mode is switched or
\* /quit ends the session.
C39_CaptureResumes ==
    []((/\ pc.evt = "stop_stream" /\ enabled /\ ~ptt_mode
        /\ <>(pc.evt = "ae_flush"))
          => <>(running \/ ptt_mode \/ ~enabled \/ ~Live))

\* In a run without commands, agent_end has found the capture stopped in
\* Continuous mode and its start() has set the running flag again.
C39_Witness ==
    /\ pc.evt = "start_stream" /\ running /\ enabled /\ ~ptt_mode
    /\ cnt.cmd = MaxCmds - WaitCmds

====
